---- MODULE Spec2Model ----
(***************************************************************************)
(* A model of tidb2dw's Snowflake replication:                             *)
(*   - the orchestrator's run function (cmd "snowflake", NewSnowflakeCmd), *)
(*   - LoadSnapshotFromStage and its progress poller (snowsql/sql.go),     *)
(*   - ReplicateSession.loadSnapshotDataIntoSnowflake (cmd/snapshot.go),   *)
(*   - GenMergeInto and the merge statement it builds (snowsql/sql.go),    *)
(*   - GenDDLViaColumnsDiff and GetColumnModifyString of the Redshift      *)
(*     translator (redshiftsql), GenCreateSchema (snowsql/sql.go).         *)
(* Each part has its own specification over the shared variables; the      *)
(* variables of the other parts stay at their initial values.              *)
(***************************************************************************)
EXTENDS Integers, Sequences, FiniteSets, TLC

VARIABLES
    run,        \* the locals of the orchestrator's current run (one process)
    markers,    \* the workspace's durable files: snapshot/loadinfo, increment/metadata
    clock,      \* the source's current logical timestamp (TSO)
    jobs,       \* the capture jobs registered so far, in order
    snapshotAt, \* the consistency point (as text) of the loaded snapshot, <<>> if none
    nRuns,      \* how many runs have been started
    ld,         \* LoadSnapshotFromStage: the caller and its poller goroutine
    sess,       \* ReplicateSession.loadSnapshotDataIntoSnowflake
    mrg,        \* GenMergeInto: a table definition, a target table, a batch
    ddl,        \* GenDDLViaColumnsDiff: its arguments and its results
    crt,        \* GenCreateSchema: the source's column rows and the text built
    mod         \* GetColumnModifyString: a diff entry and the text built

vars == <<run, markers, clock, jobs, snapshotAt, nRuns, ld, sess, mrg, ddl, crt, mod>>

(***************************************************************************)
(* Bounds of the model.                                                    *)
(***************************************************************************)
MaxTSO == 3
MaxRuns == 3
MaxPolls == 2
MaxServerTime == 2
MaxParts == 2
MaxBatch == 3
MaxColumns == 2

(***************************************************************************)
(* Text: a string is a sequence of tokens; decimal text is a sequence of   *)
(* digits.                                                                 *)
(***************************************************************************)
RECURSIVE FmtUint(_)
\* fmt.Sprint(startTSO): the decimal digits of an unsigned number.
FmtUint(n) == IF n < 10 THEN <<n>> ELSE Append(FmtUint(n \div 10), n % 10)

RECURSIVE ParseUint(_)
\* The number a decimal text denotes (the snapshot extractor reads the
\* consistency point back from the text it is handed).
ParseUint(s) ==
    IF s = <<>> THEN 0
    ELSE 10 * ParseUint(SubSeq(s, 1, Len(s) - 1)) + s[Len(s)]

\* strings.SplitN(s, sep, 2): at most two parts, split at the first sep.
SplitN2(s, sep) ==
    IF \E i \in 1..Len(s) : s[i] = sep
    THEN LET i == CHOOSE k \in 1..Len(s) :
                      s[k] = sep /\ \A j \in 1..(k - 1) : s[j] # sep
         IN <<SubSeq(s, 1, i - 1), SubSeq(s, i + 1, Len(s))>>
    ELSE <<s>>

(***************************************************************************)
(* ReplicateSession.loadSnapshotDataIntoSnowflake: create the stage, list  *)
(* the workspace, load each part, drop the stage.                          *)
(***************************************************************************)
\* strings.HasPrefix, strings.HasSuffix, strings.TrimPrefix
HasPrefix(s, pre) == Len(pre) <= Len(s) /\ SubSeq(s, 1, Len(pre)) = pre
HasSuffix(s, suf) ==
    Len(suf) <= Len(s) /\ SubSeq(s, Len(s) - Len(suf) + 1, Len(s)) = suf
TrimPrefix(s, pre) ==
    IF HasPrefix(s, pre) THEN SubSeq(s, Len(pre) + 1, Len(s)) ELSE s

\* The session: source table db.t, and the path part of StorageWorkspacePath.
SourceDatabase == <<"db">>
SourceTable == <<"t">>
WorkspaceURLPath == <<"/", "dump", "/", "id">>

workspacePrefix == TrimPrefix(WorkspaceURLPath, <<"/">>)
snapshotPrefix == workspacePrefix \o <<"/", "snapshot", "/">>
dumpFilePrefix == snapshotPrefix \o SourceDatabase \o <<".">> \o SourceTable \o <<".">>

\* The decimal digit n as a token.
DigitToken(n) == <<"0", "1", "2", "3", "4", "5", "6", "7", "8", "9">>[n + 1]

\* The key of part-file n of the dump: <schema>.<table>.<n>.csv.
PartKey(n) == dumpFilePrefix \o <<DigitToken(n), ".", "csv">>

\* What the bucket may hold under the workspace prefix, in key order (the
\* order of a listing): the table's schema file, the table's parts, a part of
\* another table, and the dump's metadata file.
BucketKeys ==
    <<snapshotPrefix \o <<"db", ".", "t", "-schema", ".", "sql">>>>
    \o [n \in 1..MaxParts |-> PartKey(n - 1)]
    \o <<snapshotPrefix \o <<"db", ".", "t2", ".", "0", ".", "csv">>,
         snapshotPrefix \o <<"metadata">>>>

\* The objects ListObjectsV2 returns when the bucket holds the keys in S.
Listing(S) == SelectSeq(BucketKeys, LAMBDA k : k \in S)

\* Whether the loop over result.Contents keeps a key.
IsDumpedSnapshot(key) ==
    HasPrefix(key, dumpFilePrefix) /\ HasSuffix(key, <<".", "csv">>)

RECURSIVE FilterSnapshots(_)
\* dumpedSnapshots: the kept keys, relative to the workspace, in listing order.
FilterSnapshots(contents) ==
    IF contents = <<>> THEN <<>>
    ELSE IF IsDumpedSnapshot(Head(contents))
         THEN <<TrimPrefix(Head(contents), workspacePrefix)>>
              \o FilterSnapshots(Tail(contents))
         ELSE FilterSnapshots(Tail(contents))

IdleSess ==
    [pc |-> "off",
     stage |-> FALSE,          \* the stage snapshot_stage_<table> exists
     listed |-> FALSE,         \* ListObjectsV2 has returned
     contents |-> <<>>,        \* result.Contents
     dumpedSnapshots |-> <<>>,
     next |-> 1,               \* the part the loop is at
     loads |-> <<>>,           \* the parts a load statement was issued for
     steps |-> <<>>,           \* the steps of Run before the load that were started
     ok |-> 0,                 \* how many of them succeeded
     ResolvedTSO |-> "",       \* conf.Snapshot as NewDumper resolved it
     dumped |-> FALSE,         \* dumper.Dump() succeeded
     err |-> "nil"]

\* snowsql.CreateExternalStage (CREATE OR REPLACE STAGE).
SessCreateStage ==
    /\ sess.pc = "stage"
    /\ \/ sess' = [sess EXCEPT !.pc = "list", !.stage = TRUE]
       \/ sess' = [sess EXCEPT !.pc = "failed", !.err = "Failed to create stage"]
    /\ UNCHANGED <<run, markers, clock, jobs, snapshotAt, nRuns, ld, mrg, ddl, crt, mod>>

\* ListObjectsV2 under the workspace prefix, the check of an empty answer and
\* the filter that builds dumpedSnapshots.
SessListObjects ==
    /\ sess.pc = "list"
    /\ \/ sess' = [sess EXCEPT !.pc = "failed", !.err = "list objects"]
       \/ \E S \in SUBSET {BucketKeys[i] : i \in 1..Len(BucketKeys)} :
             LET contents == Listing(S)
             IN sess' = IF Len(contents) = 0
                        THEN [sess EXCEPT !.pc = "failed", !.listed = TRUE,
                                          !.err = "No snapshot files found"]
                        ELSE [sess EXCEPT !.pc = "load", !.listed = TRUE,
                                          !.contents = contents,
                                          !.dumpedSnapshots = FilterSnapshots(contents)]
    /\ UNCHANGED <<run, markers, clock, jobs, snapshotAt, nRuns, ld, mrg, ddl, crt, mod>>

\* A loop that goes on with the next part after a failed load statement.
SessLoadPart_ContinuesAfterFailure ==
    /\ sess.pc = "load"
    /\ sess.next <= Len(sess.dumpedSnapshots)
    /\ \/ sess' = [sess EXCEPT !.next = sess.next + 1,
                               !.loads = Append(sess.loads, sess.dumpedSnapshots[sess.next])]
       \/ sess' = [sess EXCEPT !.next = sess.next + 1, !.err = "load",
                               !.loads = Append(sess.loads, sess.dumpedSnapshots[sess.next])]
    /\ UNCHANGED <<run, markers, clock, jobs, snapshotAt, nRuns, ld, mrg, ddl, crt, mod>>

\* One round of the loop: the load statement of the next part.
SessLoadPart ==
    /\ sess.pc = "load"
    /\ sess.next <= Len(sess.dumpedSnapshots)
    /\ \/ sess' = [sess EXCEPT !.next = sess.next + 1,
                               !.loads = Append(sess.loads, sess.dumpedSnapshots[sess.next])]
       \/ sess' = [sess EXCEPT !.pc = "failed", !.err = "load",
                               !.loads = Append(sess.loads, sess.dumpedSnapshots[sess.next])]
    /\ UNCHANGED <<run, markers, clock, jobs, snapshotAt, nRuns, ld, mrg, ddl, crt, mod>>

\* The stage dropped at any round of the loop.
SessDropStage_BeforeLastLoad ==
    /\ sess.pc = "load"
    /\ \/ sess' = [sess EXCEPT !.pc = "done", !.stage = FALSE]
       \/ sess' = [sess EXCEPT !.pc = "failed", !.err = "drop stage"]
    /\ UNCHANGED <<run, markers, clock, jobs, snapshotAt, nRuns, ld, mrg, ddl, crt, mod>>

\* After the loop: snowsql.DropStage, and the load reports success.
SessDropStage ==
    /\ sess.pc = "load"
    /\ sess.next > Len(sess.dumpedSnapshots)
    /\ \/ sess' = [sess EXCEPT !.pc = "done", !.stage = FALSE]
       \/ sess' = [sess EXCEPT !.pc = "failed", !.err = "drop stage"]
    /\ UNCHANGED <<run, markers, clock, jobs, snapshotAt, nRuns, ld, mrg, ddl, crt, mod>>

(***************************************************************************)
(* ReplicateSession.Run: the two pings, buildDumper, the target table, the *)
(* dump, and then the load above (from pc = "stage").                      *)
(***************************************************************************)
\* The consistency points NewDumper may leave in conf.Snapshot.
ResolvedSnapshots == {"", "1", "2"}

\* sess.SnowflakePool.Ping()
SessPingSnowflake ==
    /\ sess.pc = "ping snowflake"
    /\ \/ sess' = [sess EXCEPT !.pc = "ping tidb",
                               !.steps = Append(sess.steps, "ping snowflake"),
                               !.ok = sess.ok + 1]
       \/ sess' = [sess EXCEPT !.pc = "failed",
                               !.steps = Append(sess.steps, "ping snowflake"),
                               !.err = "Failed to connect to Snowflake"]
    /\ UNCHANGED <<run, markers, clock, jobs, snapshotAt, nRuns, ld, mrg, ddl, crt, mod>>

\* sess.TiDBPool.Ping()
SessPingTiDB ==
    /\ sess.pc = "ping tidb"
    /\ \/ sess' = [sess EXCEPT !.pc = "build dumper",
                               !.steps = Append(sess.steps, "ping tidb"),
                               !.ok = sess.ok + 1]
       \/ sess' = [sess EXCEPT !.pc = "failed",
                               !.steps = Append(sess.steps, "ping tidb"),
                               !.err = "Failed to connect to TiDB"]
    /\ UNCHANGED <<run, markers, clock, jobs, snapshotAt, nRuns, ld, mrg, ddl, crt, mod>>

\* A buildDumper that goes on with an empty consistency point.
SessBuildDumper_AcceptsEmptySnapshot ==
    /\ sess.pc = "build dumper"
    /\ \E snapshot \in ResolvedSnapshots :
          sess' = [sess EXCEPT !.pc = "create table",
                               !.steps = Append(sess.steps, "build dumper"),
                               !.ok = sess.ok + 1,
                               !.ResolvedTSO = snapshot]
    /\ UNCHANGED <<run, markers, clock, jobs, snapshotAt, nRuns, ld, mrg, ddl, crt, mod>>

\* buildDumper: the config, NewDumper, the resolved consistency point (an
\* empty one is an error), and SET SESSION tidb_snapshot.
SessBuildDumper ==
    /\ sess.pc = "build dumper"
    /\ \/ sess' = [sess EXCEPT !.pc = "failed",
                               !.steps = Append(sess.steps, "build dumper"),
                               !.err = "Failed to build dumpling config"]
       \/ sess' = [sess EXCEPT !.pc = "failed",
                               !.steps = Append(sess.steps, "build dumper"),
                               !.err = "Failed to create dumpling instance"]
       \/ \E snapshot \in ResolvedSnapshots :
             \/ /\ Len(snapshot) = 0
                /\ sess' = [sess EXCEPT !.pc = "failed",
                                        !.steps = Append(sess.steps, "build dumper"),
                                        !.ResolvedTSO = snapshot,
                                        !.err = "Snapshot is not available"]
             \/ /\ Len(snapshot) # 0
                /\ \/ sess' = [sess EXCEPT !.pc = "failed",
                                           !.steps = Append(sess.steps, "build dumper"),
                                           !.ResolvedTSO = snapshot,
                                           !.err = "set tidb_snapshot"]
                   \/ sess' = [sess EXCEPT !.pc = "create table",
                                           !.steps = Append(sess.steps, "build dumper"),
                                           !.ok = sess.ok + 1,
                                           !.ResolvedTSO = snapshot]
    /\ UNCHANGED <<run, markers, clock, jobs, snapshotAt, nRuns, ld, mrg, ddl, crt, mod>>

\* dumpPrepareTargetTable: GenCreateSchema and the execution of its text.
SessPrepareTargetTable ==
    /\ sess.pc = "create table"
    /\ \/ sess' = [sess EXCEPT !.pc = "failed",
                               !.steps = Append(sess.steps, "create table"),
                               !.err = "create schema"]
       \/ sess' = [sess EXCEPT !.pc = "failed",
                               !.steps = Append(sess.steps, "create table"),
                               !.err = "create table"]
       \/ sess' = [sess EXCEPT !.pc = "dump",
                               !.steps = Append(sess.steps, "create table"),
                               !.ok = sess.ok + 1]
    /\ UNCHANGED <<run, markers, clock, jobs, snapshotAt, nRuns, ld, mrg, ddl, crt, mod>>

\* dumper.Dump() and dumper.Close(); after a successful dump the load starts.
SessDump ==
    /\ sess.pc = "dump"
    /\ \/ sess' = [sess EXCEPT !.pc = "failed",
                               !.steps = Append(sess.steps, "dump"),
                               !.err = "Failed to dump table from TiDB"]
       \/ sess' = [sess EXCEPT !.pc = "stage",
                               !.steps = Append(sess.steps, "dump"),
                               !.ok = sess.ok + 1,
                               !.dumped = TRUE]
    /\ UNCHANGED <<run, markers, clock, jobs, snapshotAt, nRuns, ld, mrg, ddl, crt, mod>>

(***************************************************************************)
(* GenMergeInto, and what the statement it builds does to a target table.  *)
(* A staged change row is <<flag, table, schema, commit-ts, column         *)
(* values...>>: $1 is the flag, $4 the ordering key, $5.. the columns.     *)
(* The ordering keys of one source have the same width, so their order as  *)
(* text is their order as numbers.                                         *)
(***************************************************************************)
Flags == {"I", "U", "D"}
Vals == {1, 2}

\* The table definitions: columns a and b, with no primary key, with the
\* primary key (a), and with the primary key (a, b).
Column(name, pk) == [Name |-> name, IsPK |-> IF pk THEN "true" ELSE "false"]
TableDefs ==
    {[Table |-> "t", Columns |-> <<Column("a", pk[1]), Column("b", pk[2])>>] :
        pk \in {<<FALSE, FALSE>>, <<TRUE, FALSE>>, <<TRUE, TRUE>>}}

ColumnNames(tableDef) ==
    {tableDef.Columns[i].Name : i \in 1..Len(tableDef.Columns)}
PKNames(tableDef) ==
    {tableDef.Columns[i].Name :
        i \in {k \in 1..Len(tableDef.Columns) : tableDef.Columns[k].IsPK = "true"}}

\* GenMergeInto with the dedup ordered ascending (the oldest row survives).
GenMergeInto_OrderAsc(tableDef, filePath, stageName) ==
    LET cols == tableDef.Columns
        pk == SelectSeq(cols, LAMBDA c : c.IsPK = "true")
    IN [into |-> tableDef.Table,
        select |-> <<[pos |-> 1, as |-> "METADATA$FLAG"]>>
                   \o [i \in 1..Len(cols) |-> [pos |-> i + 4, as |-> cols[i].Name]],
        from |-> <<stageName, filePath>>,
        partitionBy |-> [i \in 1..Len(pk) |-> pk[i].Name],
        orderBy |-> 4,
        desc |-> FALSE,
        on |-> [i \in 1..Len(pk) |-> [T |-> pk[i].Name, S |-> pk[i].Name]],
        update |-> [i \in 1..Len(cols) |-> [T |-> cols[i].Name, S |-> cols[i].Name]],
        insert |-> [i \in 1..Len(cols) |-> cols[i].Name],
        values |-> [i \in 1..Len(cols) |-> cols[i].Name]]

\* GenMergeInto: the parts of the MERGE INTO statement. Column i (from 0) of
\* the table is selected from position i+5 of the staged row; the dedup keeps
\* row_number() = 1 over (partition by <pk columns> order by $4 desc).
GenMergeInto(tableDef, filePath, stageName) ==
    LET cols == tableDef.Columns
        pk == SelectSeq(cols, LAMBDA c : c.IsPK = "true")
    IN [into |-> tableDef.Table,
        select |-> <<[pos |-> 1, as |-> "METADATA$FLAG"]>>
                   \o [i \in 1..Len(cols) |-> [pos |-> i + 4, as |-> cols[i].Name]],
        from |-> <<stageName, filePath>>,
        partitionBy |-> [i \in 1..Len(pk) |-> pk[i].Name],
        orderBy |-> 4,
        desc |-> TRUE,
        on |-> [i \in 1..Len(pk) |-> [T |-> pk[i].Name, S |-> pk[i].Name]],
        update |-> [i \in 1..Len(cols) |-> [T |-> cols[i].Name, S |-> cols[i].Name]],
        insert |-> [i \in 1..Len(cols) |-> cols[i].Name],
        values |-> [i \in 1..Len(cols) |-> cols[i].Name]]

\* The statement's SELECT list applied to one staged row.
Project(stmt, row) ==
    [name \in {stmt.select[i].as : i \in 1..Len(stmt.select)} |->
        row[stmt.select[CHOOSE i \in 1..Len(stmt.select) : stmt.select[i].as = name].pos]]

\* A dedup that keeps every staged row.
Qualified_NoDedup(stmt, staged) == {staged}

\* QUALIFY row_number() over (partition by .. order by $n [desc]) = 1: one
\* row of each partition, one that no row of the partition comes before.
\* Among the rows of a partition with the same $n the warehouse numbers any
\* of them 1, so the result is one of the sets this gives.
Qualified(stmt, staged) ==
    LET P == [r \in staged |-> Project(stmt, r)]
        SamePartition(r1, r2) ==
            \A i \in 1..Len(stmt.partitionBy) :
                P[r1][stmt.partitionBy[i]] = P[r2][stmt.partitionBy[i]]
        Before(r1, r2) ==
            IF stmt.desc THEN r1[stmt.orderBy] > r2[stmt.orderBy]
            ELSE r1[stmt.orderBy] < r2[stmt.orderBy]
        firsts == {r \in staged :
                      \A r2 \in staged : SamePartition(r, r2) => ~Before(r2, r)}
    IN {K \in SUBSET firsts :
           \A r \in firsts : Cardinality({k \in K : SamePartition(k, r)}) = 1}

\* The MERGE on the rows the dedup kept: each target row with a matching
\* source row is updated or, under flag D, deleted; each source row without a
\* match is inserted unless its flag is D.
ExecMerge(stmt, target, kept) ==
    LET S == {Project(stmt, r) : r \in kept}
        Matches(t, s) == \A i \in 1..Len(stmt.on) : t[stmt.on[i].T] = s[stmt.on[i].S]
        Updated(t, s) ==
            [c \in DOMAIN t |->
                IF \E i \in 1..Len(stmt.update) : stmt.update[i].T = c
                THEN s[stmt.update[CHOOSE i \in 1..Len(stmt.update) : stmt.update[i].T = c].S]
                ELSE t[c]]
        Inserted(s) ==
            [c \in {stmt.insert[i] : i \in 1..Len(stmt.insert)} |->
                s[stmt.values[CHOOSE i \in 1..Len(stmt.insert) : stmt.insert[i] = c]]]
    IN {t \in target : ~\E s \in S : Matches(t, s)}
       \cup {Updated(p[1], p[2]) :
                p \in {q \in target \X S : Matches(q[1], q[2]) /\ q[2]["METADATA$FLAG"] # "D"}}
       \cup {Inserted(s) :
                s \in {x \in S : x["METADATA$FLAG"] # "D" /\ ~\E t \in target : Matches(t, x)}}

\* A staged change row of table db.t.
StagedRow(flag, ts, a, b) == <<flag, "t", "db", ts, a, b>>

\* The target tables a definition allows: no two rows with one key.
Targets(tableDef) ==
    {T \in SUBSET [a : Vals, b : Vals] :
        \A t1, t2 \in T : (\A c \in PKNames(tableDef) : t1[c] = t2[c]) => t1 = t2}

\* The batches of a staged file: up to MaxBatch change rows with ordering
\* keys up to MaxBatch, two rows of one transaction having the same one.
RECURSIVE Batches(_)
Batches(n) ==
    IF n = 0 THEN {{}}
    ELSE LET smaller == Batches(n - 1)
         IN smaller
            \cup {B \cup {StagedRow(f, ts, a, b)} :
                     B \in smaller, f \in Flags, ts \in 1..MaxBatch, a \in Vals, b \in Vals}

IdleMrg ==
    [pc |-> "off",
     tableDef |-> [Table |-> "t", Columns |-> <<>>],
     staged |-> {},   \* the batch of change rows in the staged file
     kept |-> {},     \* the rows the dedup of the last execution kept
     before |-> {},   \* the target table before the merge
     target |-> {},   \* the target table
     first |-> {},    \* the target table after the first execution
     stmt |-> [into |-> ""]]

\* One batch: GenMergeInto builds the statement and the warehouse executes
\* it. Without a partition key and an ON condition the text is no statement,
\* and the warehouse refuses it.
MergeBatch ==
    /\ mrg.pc = "staged"
    /\ LET stmt == GenMergeInto(mrg.tableDef, "file.csv", "increment_stage_t")
       IN IF stmt.partitionBy = <<>> \/ stmt.on = <<>>
          THEN mrg' = [mrg EXCEPT !.pc = "refused", !.stmt = stmt]
          ELSE \E kept \in Qualified(stmt, mrg.staged) :
                  LET merged == ExecMerge(stmt, mrg.target, kept)
                  IN mrg' = [mrg EXCEPT !.pc = "merged", !.stmt = stmt, !.kept = kept,
                                        !.target = merged, !.first = merged]
    /\ UNCHANGED <<run, markers, clock, jobs, snapshotAt, nRuns, ld, sess, ddl, crt, mod>>

\* The same batch once more (delivery is at-least-once): the statement is
\* built again from the same arguments and executed on the merged target.
MergeAgain ==
    /\ mrg.pc = "merged"
    /\ LET stmt == GenMergeInto(mrg.tableDef, "file.csv", "increment_stage_t")
       IN \E kept \in Qualified(stmt, mrg.staged) :
             mrg' = [mrg EXCEPT !.pc = "remerged", !.stmt = stmt, !.kept = kept,
                                !.target = ExecMerge(stmt, mrg.target, kept)]
    /\ UNCHANGED <<run, markers, clock, jobs, snapshotAt, nRuns, ld, sess, ddl, crt, mod>>

(***************************************************************************)
(* pkg/redshiftsql: GenDDLViaColumnsDiff and the column text it emits.     *)
(* Statements are strings. A column's Default is <<>> for nil and <<v>>    *)
(* for the value v; a nil error is "nil".                                  *)
(***************************************************************************)
\* timodel.ActionType: the action tag of a table definition.
ActionTruncateTable == "truncate table"
ActionDropTable == "drop table"
ActionCreateTable == "create table"
ActionRenameTables == "rename tables"
ActionDropSchema == "drop schema"
ActionCreateSchema == "create schema"
ActionAddColumn == "add column"
ActionDropColumn == "drop column"
ActionModifyColumn == "modify column"
ActionRenameColumn == "rename column"
ActionTypes ==
    {ActionTruncateTable, ActionDropTable, ActionCreateTable, ActionRenameTables,
     ActionDropSchema, ActionCreateSchema,
     ActionAddColumn, ActionDropColumn, ActionModifyColumn, ActionRenameColumn}

\* tidbsql's diff actions.
ADD_COLUMN == "ADD"
DROP_COLUMN == "DROP"
MODIFY_COLUMN == "MODIFY"
RENAME_COLUMN == "RENAME"
UNCHANGE == "UNCHANGE"

\* strings.Contains
Contains(s, sub) ==
    \E i \in 1..(Len(s) - Len(sub) + 1) : SubSeq(s, i, i + Len(sub) - 1) = sub

\* errors.New: an error with the given text.
ErrorsNew_Nil(text) == "nil"
ErrorsNew(text) == text

\* A cloudstorage.TableCol.
TableCol(id, name, tp, precision, nullable, default) ==
    [ID |-> id, Name |-> name, Tp |-> tp, Precision |-> precision, Scale |-> "",
     Default |-> default, Nullable |-> nullable, IsPK |-> "false"]

\* The value of a nil *TableCol in a diff entry.
NilCol == TableCol(0, "", "", "", "", <<>>)

\* The names column id may have, before and after a rename.
ColNames(id) ==
    {<<"id", "name", "age", "note">>[id], <<"uid", "title", "years", "memo">>[id]}

\* The source types of the model with their length: two the type table maps
\* and one it does not.
ColTypes == {<<"int", "11">>, <<"varchar", "10">>, <<"geometry", "">>}

\* The columns a previous column list may hold for one column id.
PrevCols(id) ==
    {TableCol(id, <<"id", "name", "age", "note">>[id], t[1], t[2], "true", <<>>) :
        t \in {<<"int", "11">>, <<"varchar", "10">>}}

\* The columns a current column list may hold for one column id.
CurCols(id) ==
    {TableCol(id, n, t[1], t[2], nd[1], nd[2]) :
        n \in ColNames(id), t \in ColTypes, nd \in {<<"true", <<>>>>, <<"false", <<"0">>>>}}

RECURSIVE ColumnLists(_, _, _)
\* The column lists over the ids from..to, cols[id] being the columns of id:
\* each id absent or present once, in id order.
ColumnLists(cols, from, to) ==
    IF from > to THEN {<<>>}
    ELSE LET rest == ColumnLists(cols, from + 1, to)
         IN rest \cup {<<c>> \o r : c \in cols[from], r \in rest}

PrevColumnLists == ColumnLists([id \in 1..MaxColumns |-> PrevCols(id)], 1, MaxColumns)
CurColumnLists == ColumnLists([id \in 1..MaxColumns |-> CurCols(id)], 1, MaxColumns)

\* strconv.ParseFloat(s, 64) returns no error. The text is a special value
\* (inf, infinity with an optional sign, nan without one, in any case), or
\* a decimal or hexadecimal floating-point number with underscores between
\* its digits, whose value rounds to a finite float64.
Ch(s, i) == SubSeq(s, i, i)

LowerChar(c) ==
    LET lower == "abcdefghijklmnopqrstuvwxyz"
        upper == "ABCDEFGHIJKLMNOPQRSTUVWXYZ"
    IN IF \E i \in 1..26 : Ch(upper, i) = c
       THEN LET i == CHOOSE k \in 1..26 : Ch(upper, k) = c
            IN Ch(lower, i)
       ELSE c

\* The value of a decimal or hexadecimal digit, -1 for any other character.
DigitVal(c) ==
    IF \E i \in 1..16 : Ch("0123456789abcdef", i) = LowerChar(c)
    THEN (CHOOSE i \in 1..16 : Ch("0123456789abcdef", i) = LowerChar(c)) - 1
    ELSE -1

\* The text without its sign.
Unsigned(s) ==
    IF Len(s) > 0 /\ Ch(s, 1) \in {"+", "-"} THEN SubSeq(s, 2, Len(s)) ELSE s

\* special: the whole text is an infinity or a NaN, in any case.
Special(s) ==
    LET Fold(t, word) ==
            /\ Len(t) = Len(word)
            /\ \A i \in 1..Len(t) : LowerChar(Ch(t, i)) = Ch(word, i)
    IN \/ Fold(Unsigned(s), "inf")
       \/ Fold(Unsigned(s), "infinity")
       \/ Fold(s, "nan")

\* underscoreOK: every underscore is between two digits, or between the base
\* prefix and a digit. saw, the kind of the last character, is a digit
\* before every underscore and an underscore before digits only, and is no
\* underscore at the end.
UnderscoreOK(s) ==
    LET t == Unsigned(s)
        prefixed == Len(t) >= 2 /\ Ch(t, 1) = "0" /\ LowerChar(Ch(t, 2)) \in {"b", "o", "x"}
        hex == prefixed /\ LowerChar(Ch(t, 2)) = "x"
        from == IF prefixed THEN 3 ELSE 1
        Digit(i) == DigitVal(Ch(t, i)) \in (IF hex THEN 0..15 ELSE 0..9)
        Saw(i) == IF i < from THEN (IF prefixed THEN "0" ELSE "^")
                  ELSE IF Digit(i) THEN "0"
                  ELSE IF Ch(t, i) = "_" THEN "_"
                  ELSE "!"
    IN /\ \A i \in from..Len(t) :
             /\ Ch(t, i) = "_" => Saw(i - 1) = "0"
             /\ Saw(i - 1) = "_" => Digit(i)
       /\ Saw(Len(t)) # "_"

\* A decimal number digits * 10^exp (the values of its digits, without
\* leading zeros) rounds to no finite float64: it is 2^1024 - 2^970 or more.
DecimalOverflows(digits, exp) ==
    \E threshold \in
        {"179769313486231580793728971405303415079934132710037826936173778980444968292764750946649017977587207096330286416692887910946555547851940402630657488671505820681908902000708383676273854845817711531764475730270069855571366959622842914819860834936475292719074168444365510704342711559699508093042880177904174497792"} :
    \E n \in {Len(digits) + exp} :
       /\ Len(digits) > 0
       /\ \/ n > Len(threshold)
          \/ /\ n = Len(threshold)
             /\ \E diff \in {{i \in 1..Len(threshold) :
                                (IF i <= Len(digits) THEN digits[i] ELSE 0)
                                   # DigitVal(Ch(threshold, i))}} :
                   \/ diff = {}
                   \/ \E first \in diff :
                         /\ \A j \in diff : first <= j
                         /\ first <= Len(digits)
                         /\ digits[first] > DigitVal(Ch(threshold, first))

\* A hexadecimal number digits * 2^exp (the values of its digits, without
\* leading zeros) rounds to no finite float64: its leading bit is 2^1024 or
\* above, or it is 2^1023 followed by 53 more ones.
HexOverflows(digits, exp) ==
    /\ Len(digits) > 0
    /\ \E b \in {IF digits[1] >= 8 THEN 4 ELSE IF digits[1] >= 4 THEN 3
                 ELSE IF digits[1] >= 2 THEN 2 ELSE 1} :
       \E top \in {4 * (Len(digits) - 1) + b - 1 + exp} :
       \E full \in {(54 - b) \div 4} :
       \E r \in {(54 - b) % 4} :
          \/ top > 1023
          \/ /\ top = 1023
             /\ digits[1] \in {1, 3, 7, 15}
             /\ Len(digits) >= 1 + full
             /\ \A i \in 2..(1 + full) : digits[i] = 15
             /\ \/ r = 0
                \/ /\ Len(digits) >= 2 + full
                   /\ digits[2 + full] >= <<15, 8, 12, 14>>[r + 1]

RECURSIVE ExponentValue(_, _, _)
\* The exponent's digits read as readFloat reads them: underscores (-1)
\* skipped, no more digits added from 10000 on.
ExponentValue(digits, i, e) ==
    IF i > Len(digits) \/ e >= 10000 THEN e
    ELSE ExponentValue(digits, i + 1, IF digits[i] < 0 THEN e ELSE e * 10 + digits[i])

\* readFloat, the check that it read the whole text, underscoreOK and the
\* range check of the conversion. vals are the values of the characters as
\* digits; kind is "0" for a digit of the base, the character for a point or
\* an underscore, "!" for any other; the mantissa ends before position stop,
\* at the first other character or the second point.
ParseNumberOK(s) ==
    \E body \in {Unsigned(s)} :
    \E hex \in {Len(body) > 2 /\ Ch(body, 1) = "0" /\ LowerChar(Ch(body, 2)) = "x"} :
    \E rest \in {IF hex THEN SubSeq(body, 3, Len(body)) ELSE body} :
    \E vals \in {[i \in 1..Len(rest) |-> DigitVal(Ch(rest, i))]} :
    \E kind \in {[i \in 1..Len(rest) |->
                    IF vals[i] \in (IF hex THEN 0..15 ELSE 0..9) THEN "0"
                    ELSE IF Ch(rest, i) \in {"_", "."} THEN Ch(rest, i)
                    ELSE "!"]} :
    \E stop \in 1..(Len(rest) + 1) :
       /\ \A i \in 1..(stop - 1) :
             /\ kind[i] # "!"
             /\ kind[i] = "." => \A j \in 1..(i - 1) : kind[j] # "."
       /\ stop <= Len(rest) =>
             \/ kind[stop] = "!"
             \/ kind[stop] = "." /\ \E j \in 1..(stop - 1) : kind[j] = "."
       \* sawdigits
       /\ \E i \in 1..(stop - 1) : kind[i] = "0"
       /\ \E hasExp \in {/\ stop <= Len(rest)
                         /\ LowerChar(Ch(rest, stop)) = (IF hex THEN "p" ELSE "e")} :
          \E e \in {IF hasExp THEN SubSeq(rest, stop + 1, Len(rest)) ELSE ""} :
          \E edigits \in {[i \in 1..Len(Unsigned(e)) |->
                             IF Ch(Unsigned(e), i) = "_" THEN -1
                             ELSE IF DigitVal(Ch(Unsigned(e), i)) \in 0..9
                             THEN DigitVal(Ch(Unsigned(e), i))
                             ELSE -2]} :
             /\ IF hasExp
                THEN /\ Len(edigits) > 0
                     /\ edigits[1] >= 0
                     /\ \A i \in 1..Len(edigits) : edigits[i] >= -1
                ELSE ~hex /\ stop = Len(rest) + 1
             /\ (\E i \in 1..Len(s) : Ch(s, i) = "_") => UnderscoreOK(s)
             /\ \E evalue \in {IF ~hasExp THEN 0
                               ELSE IF Ch(e, 1) = "-" THEN 0 - ExponentValue(edigits, 1, 0)
                               ELSE ExponentValue(edigits, 1, 0)} :
                \E nfrac \in {Cardinality({i \in 1..(stop - 1) :
                                 kind[i] = "0" /\ \E j \in 1..(i - 1) : kind[j] = "."})} :
                \E all \in {SelectSeq(SubSeq(vals, 1, stop - 1), LAMBDA v : v >= 0)} :
                \E zeros \in {Cardinality({i \in 1..Len(all) :
                                 \A j \in 1..i : all[j] = 0})} :
                \E digits \in {SubSeq(all, zeros + 1, Len(all))} :
                   IF hex THEN ~HexOverflows(digits, evalue - 4 * nfrac)
                   ELSE ~DecimalOverflows(digits, evalue - nfrac)

\* The text is evaluated once, then parsed.
ParseFloatOK(s) == \E text \in {s} : Special(text) \/ ParseNumberOK(text)

\* getDefaultString: a value that parses as a number as it is, any other
\* value between single quotes.
getDefaultString(val) ==
    IF ParseFloatOK(val) THEN val ELSE "'" \o val \o "'"

\* GetRedshiftTypeString: the column's name and its Redshift type, or an
\* error for a source type the type table does not have.
GetRedshiftTypeString(column) ==
    IF column.Tp = "int" THEN [str |-> column.Name \o " INT", err |-> "nil"]
    ELSE IF column.Tp = "varchar"
    THEN [str |-> column.Name \o " VARCHAR(" \o column.Precision \o ")", err |-> "nil"]
    ELSE [str |-> "", err |-> "Unsupported data type: " \o column.Tp]

\* The column string with DEFAULT NULL for every column without a default.
GetRedshiftColumnString_AlwaysDefaultNull(column) ==
    LET typeStr == GetRedshiftTypeString(column)
    IN IF typeStr.err # "nil" THEN [str |-> "", err |-> typeStr.err]
       ELSE [str |-> typeStr.str
                     \o (IF column.Nullable = "false" THEN " NOT NULL" ELSE "")
                     \o (IF column.Default # <<>>
                         THEN " DEFAULT " \o getDefaultString(column.Default[1])
                         ELSE " DEFAULT NULL"),
             err |-> "nil"]

\* GetRedshiftColumnString: the type string, NOT NULL, and the default.
GetRedshiftColumnString(column) ==
    LET typeStr == GetRedshiftTypeString(column)
    IN IF typeStr.err # "nil" THEN [str |-> "", err |-> typeStr.err]
       ELSE [str |-> typeStr.str
                     \o (IF column.Nullable = "false" THEN " NOT NULL" ELSE "")
                     \o (IF column.Default # <<>>
                         THEN " DEFAULT " \o getDefaultString(column.Default[1])
                         ELSE IF column.Nullable = "true" THEN " DEFAULT NULL" ELSE ""),
             err |-> "nil"]

\* The previous column with the id of c, NilCol if there is none.
ColumnByID(columns, id) ==
    IF \E i \in 1..Len(columns) : columns[i].ID = id
    THEN columns[CHOOSE i \in 1..Len(columns) : columns[i].ID = id]
    ELSE NilCol

\* The diff entry of a previous column: dropped, modified (type, precision or
\* scale changed), renamed or unchanged.
DiffOfPrev(before, curr) ==
    LET after == ColumnByID(curr, before.ID)
    IN IF after = NilCol
       THEN [Action |-> DROP_COLUMN, Before |-> before, After |-> NilCol]
       ELSE IF before.Tp # after.Tp \/ before.Precision # after.Precision
               \/ before.Scale # after.Scale
       THEN [Action |-> MODIFY_COLUMN, Before |-> before, After |-> after]
       ELSE IF before.Name # after.Name
       THEN [Action |-> RENAME_COLUMN, Before |-> before, After |-> after]
       ELSE [Action |-> UNCHANGE, Before |-> before, After |-> after]

\* A diff with an ADD entry for every current column, new or not.
GetColumnDiff_AddsEveryCurrent(prev, curr) ==
    [diff |-> [i \in 1..Len(prev) |-> DiffOfPrev(prev[i], curr)]
              \o [i \in 1..Len(curr) |->
                     [Action |-> ADD_COLUMN, Before |-> NilCol, After |-> curr[i]]],
     err |-> "nil"]

\* tidbsql.GetColumnDiff: one entry for each previous column, in their order,
\* then one ADD entry for each current column that is new.
GetColumnDiff(prev, curr) ==
    LET added == SelectSeq(curr, LAMBDA c : ColumnByID(prev, c.ID) = NilCol)
    IN [diff |-> [i \in 1..Len(prev) |-> DiffOfPrev(prev[i], curr)]
                 \o [i \in 1..Len(added) |->
                        [Action |-> ADD_COLUMN, Before |-> NilCol, After |-> added[i]]],
        err |-> "nil"]

\* The statements of the structural actions.
TruncateTableStmt(curTableDef) == "TRUNCATE TABLE " \o curTableDef.Table
DropTableStmt(curTableDef) == "DROP TABLE " \o curTableDef.Table
DropSchemaStmt_NoCascade(curTableDef) == "DROP SCHEMA " \o curTableDef.Schema
DropSchemaStmt(curTableDef) == "DROP SCHEMA " \o curTableDef.Schema \o " CASCADE"

\* What GenDDLViaColumnsDiff returns: the statements, the error, and whether
\* the column diff was computed and what it was.
DDLResult(ddls, err) == [ddls |-> ddls, err |-> err, diffed |-> FALSE, columnDiff |-> <<>>]

RECURSIVE DiffDDLs(_, _)
\* The loop over the diff entries: one statement for each ADD, DROP and RENAME
\* entry, none for an unchanged one; a MODIFY entry or a column without a
\* type string ends the loop with an error and no statement.
DiffDDLs(table, columnDiff) ==
    IF columnDiff = <<>> THEN [ddls |-> <<>>, err |-> "nil"]
    ELSE LET item == Head(columnDiff)
             colStr == GetRedshiftColumnString(item.After)
             failed ==
                 IF item.Action = ADD_COLUMN /\ colStr.err # "nil" THEN colStr.err
                 ELSE IF item.Action = MODIFY_COLUMN
                 THEN ErrorsNew("Received modify column ddl, which is not supported by redshift yet")
                 ELSE "nil"
             stmt ==
                 IF item.Action = ADD_COLUMN
                 THEN "ALTER TABLE " \o table \o " ADD COLUMN " \o colStr.str
                 ELSE IF item.Action = DROP_COLUMN
                 THEN "ALTER TABLE " \o table \o " DROP COLUMN " \o item.Before.Name
                 ELSE IF item.Action = RENAME_COLUMN
                 THEN "ALTER TABLE " \o table \o " RENAME COLUMN " \o item.Before.Name
                      \o " TO " \o item.After.Name
                 ELSE ""
             rest == DiffDDLs(table, Tail(columnDiff))
         IN IF failed # "nil" THEN [ddls |-> <<>>, err |-> failed]
            ELSE IF rest.err # "nil" THEN rest
            ELSE [ddls |-> (IF stmt # "" THEN <<stmt \o ";">> ELSE <<>>) \o rest.ddls,
                  err |-> "nil"]

\* A column-level part that passes over the MODIFY entries.
ColumnLevelDDL_SkipsModify(prevColumns, curTableDef) ==
    LET d == GetColumnDiff(prevColumns, curTableDef.Columns)
        r == DiffDDLs(curTableDef.Table,
                      SelectSeq(d.diff, LAMBDA e : e.Action # MODIFY_COLUMN))
    IN [ddls |-> r.ddls, err |-> r.err, diffed |-> TRUE, columnDiff |-> d.diff]

\* The column-level part of GenDDLViaColumnsDiff: the diff and its statements.
ColumnLevelDDL(prevColumns, curTableDef) ==
    LET d == GetColumnDiff(prevColumns, curTableDef.Columns)
        r == DiffDDLs(curTableDef.Table, d.diff)
    IN IF d.err # "nil"
       THEN [ddls |-> <<>>, err |-> d.err, diffed |-> TRUE, columnDiff |-> <<>>]
       ELSE [ddls |-> r.ddls, err |-> r.err, diffed |-> TRUE, columnDiff |-> d.diff]

\* A translator without the structural cases.
GenDDLViaColumnsDiff_NoStructural(prevColumns, curTableDef) ==
    ColumnLevelDDL(prevColumns, curTableDef)

\* GenDDLViaColumnsDiff: the structural actions first, then the column diff.
GenDDLViaColumnsDiff(prevColumns, curTableDef) ==
    IF curTableDef.Type = ActionTruncateTable
    THEN DDLResult(<<TruncateTableStmt(curTableDef)>>, "nil")
    ELSE IF curTableDef.Type = ActionDropTable
    THEN DDLResult(<<DropTableStmt(curTableDef)>>, "nil")
    ELSE IF curTableDef.Type = ActionCreateTable
    THEN DDLResult(<<>>, ErrorsNew("Received create table ddl, which should not happen"))
    ELSE IF curTableDef.Type = ActionRenameTables
    THEN DDLResult(<<>>, ErrorsNew("Received rename table ddl, new change data can not be capture by TiCDC any more."
                                   \o "If you want to rename table, please start a new task to capture the new table"))
    ELSE IF curTableDef.Type = ActionDropSchema
    THEN DDLResult(<<DropSchemaStmt(curTableDef)>>, "nil")
    ELSE IF curTableDef.Type = ActionCreateSchema
    THEN DDLResult(<<>>, ErrorsNew("Received create schema ddl, which should not happen"))
    ELSE ColumnLevelDDL(prevColumns, curTableDef)

IdleDDL ==
    [pc |-> "off",
     prevColumns |-> <<>>,
     curTableDef |-> [Type |-> "", Table |-> "", Schema |-> "", Columns |-> <<>>],
     ddls |-> <<>>,        \* the statements returned
     err |-> "nil",        \* the error returned
     diffed |-> FALSE,     \* GetColumnDiff was called
     columnDiff |-> <<>>]  \* what it returned

\* One call of GenDDLViaColumnsDiff.
GenDDL ==
    /\ ddl.pc = "call"
    /\ LET r == GenDDLViaColumnsDiff(ddl.prevColumns, ddl.curTableDef)
       IN ddl' = [ddl EXCEPT !.pc = "returned", !.ddls = r.ddls, !.err = r.err,
                             !.diffed = r.diffed, !.columnDiff = r.columnDiff]
    /\ UNCHANGED <<run, markers, clock, jobs, snapshotAt, nRuns, ld, sess, mrg, crt, mod>>

(***************************************************************************)
(* snowsql: GenCreateSchema, the CREATE TABLE text built from the source's *)
(* information_schema.columns rows and its index rows. A NULL column       *)
(* default is <<>>, a default v is <<v>>.                                  *)
(***************************************************************************)
\* fmt's %d of a small non-negative number.
DigitStr(n) == SubSeq("0123456789", n + 1, n + 1)
RECURSIVE Itoa(_)
Itoa(n) == IF n < 10 THEN DigitStr(n) ELSE Itoa(n \div 10) \o DigitStr(n % 10)

\* strings.ToUpper on ASCII text.
UpperChar(c) ==
    LET lower == "abcdefghijklmnopqrstuvwxyz"
        upper == "ABCDEFGHIJKLMNOPQRSTUVWXYZ"
    IN IF \E i \in 1..26 : SubSeq(lower, i, i) = c
       THEN LET i == CHOOSE k \in 1..26 : SubSeq(lower, k, k) = c
            IN SubSeq(upper, i, i)
       ELSE c
RECURSIVE ToUpper(_)
ToUpper(s) ==
    IF Len(s) = 0 THEN ""
    ELSE UpperChar(SubSeq(s, 1, 1)) \o ToUpper(SubSeq(s, 2, Len(s)))

RECURSIVE Join(_, _)
\* strings.Join
Join(strs, sep) ==
    IF strs = <<>> THEN ""
    ELSE IF Len(strs) = 1 THEN strs[1]
    ELSE strs[1] \o sep \o Join(Tail(strs), sep)

\* GetDefaultValueString: a value that parses as a number as it is, any
\* other value between single quotes.
GetDefaultValueString(val) ==
    IF ParseFloatOK(val) THEN val ELSE "'" \o val \o "'"

\* A tidbsql.TiDBColumnInfo, one row of information_schema.columns.
TiDBColumnInfo(name, default, nullable, tp) ==
    [ColumnName |-> name, ColumnDefault |-> default, IsNullable |-> nullable,
     DataType |-> tp,
     CharMaxLength |-> IF tp = "varchar" THEN 10 ELSE 0,
     NumPrecision |-> IF tp = "decimal" THEN 10 ELSE 0,
     NumScale |-> IF tp = "decimal" THEN 2 ELSE 0,
     DateTimePrec |-> 0]

\* The name and type of a column row, "" for a data type without a case
\* (which is printed only).
ColumnTypeText(column) ==
    LET tp == column.DataType
    IN IF tp \in {"text", "longtext", "mediumtext", "tinytext",
                  "blob", "longblob", "mediumblob", "tinyblob"}
       THEN column.ColumnName \o " " \o "TEXT"
       ELSE IF tp \in {"varchar", "char", "binary", "varbinary"}
       THEN column.ColumnName \o " " \o ToUpper(tp) \o "(" \o Itoa(column.CharMaxLength) \o ")"
       ELSE IF tp \in {"int", "mediumint"}
       THEN column.ColumnName \o " " \o "INT"
       ELSE IF tp \in {"bigint", "tinyint", "smallint", "float", "double"}
       THEN column.ColumnName \o " " \o ToUpper(tp)
       ELSE IF tp \in {"decimal", "numeric"}
       THEN column.ColumnName \o " " \o ToUpper(tp) \o "(" \o Itoa(column.NumPrecision)
            \o ", " \o Itoa(column.NumScale) \o ")"
       ELSE IF tp \in {"bool", "boolean"}
       THEN column.ColumnName \o " " \o "BOOLEAN"
       ELSE IF tp = "date"
       THEN column.ColumnName \o " " \o "DATE"
       ELSE IF tp \in {"datetime", "timestamp", "time"}
       THEN column.ColumnName \o " " \o ToUpper(tp) \o "(" \o Itoa(column.DateTimePrec) \o ")"
       ELSE ""

\* One round of the loop over the rows: the entry appended to columnRows.
ColumnRow(column) ==
    ColumnTypeText(column)
    \o (IF column.IsNullable = "false" THEN " NOT NULL" ELSE "")
    \o (IF column.ColumnDefault # <<>>
        THEN " DEFAULT '" \o GetDefaultValueString(column.ColumnDefault[1]) \o "'"
        ELSE IF column.IsNullable = "true" THEN " DEFAULT NULL" ELSE "")

\* Go's a < b on strings: the bytes at the first position where they differ
\* decide, and a proper prefix is less. The bytes are those of the printable
\* ASCII characters, from the space (32) to the underscore (95) and from a
\* (97) to ~ (126).
StringLess(a, b) ==
    LET low == " !\"#$%&'()*+,-./0123456789:;<=>?@ABCDEFGHIJKLMNOPQRSTUVWXYZ[\\]^_"
        high == "abcdefghijklmnopqrstuvwxyz{|}~"
        Byte(c) == IF \E i \in 1..Len(low) : Ch(low, i) = c
                   THEN 31 + (CHOOSE i \in 1..Len(low) : Ch(low, i) = c)
                   ELSE 96 + (CHOOSE i \in 1..Len(high) : Ch(high, i) = c)
        n == IF Len(a) < Len(b) THEN Len(a) ELSE Len(b)
        diff == {i \in 1..n : Ch(a, i) # Ch(b, i)}
        first == CHOOSE i \in diff : \A j \in diff : i <= j
    IN IF diff = {} THEN Len(a) < Len(b)
       ELSE Byte(Ch(a, first)) < Byte(Ch(b, first))

\* The less function given to slices.SortFunc: by KEY_NAME, then by
\* SEQ_IN_INDEX, both compared as strings.
IndexLess(i, j) ==
    IF i[1] = j[1] THEN StringLess(i[3], j[3]) ELSE StringLess(i[1], j[1])

RECURSIVE SortFunc(_)
\* slices.SortFunc on the index rows (an insertion sort up to 12 rows): each
\* row in turn moves towards the front while it is less than the row before
\* it.
SortFunc(rows) ==
    LET RECURSIVE Insert(_, _)
        Insert(sorted, row) ==
            IF sorted # <<>> /\ IndexLess(row, sorted[Len(sorted)])
            THEN Insert(SubSeq(sorted, 1, Len(sorted) - 1), row) \o <<sorted[Len(sorted)]>>
            ELSE sorted \o <<row>>
    IN IF rows = <<>> THEN <<>>
       ELSE Insert(SortFunc(SubSeq(rows, 1, Len(rows) - 1)), rows[Len(rows)])

\* snowflakePKColumns: the columns of the rows of the key named PRIMARY, in
\* the order of the sorted index rows.
PKColumns(indexResults) ==
    LET primary == SelectSeq(SortFunc(indexResults), LAMBDA r : r[1] = "PRIMARY")
    IN [i \in 1..Len(primary) |-> primary[i][2]]

\* The text GenCreateSchema returns for the column rows and the index rows.
CreateSchemaSQL(sourceTable, columns, indexResults) ==
    LET columnRows == [i \in 1..Len(columns) |-> ColumnRow(columns[i])]
        pk == PKColumns(indexResults)
        sqlRows == columnRows
                   \o (IF Len(pk) > 0
                       THEN <<"PRIMARY KEY (" \o Join(pk, ", ") \o ")">>
                       ELSE <<>>)
        indented == [i \in 1..Len(sqlRows) |-> "    " \o sqlRows[i]]
    IN Join(<<"CREATE OR REPLACE TABLE " \o sourceTable \o " (",
              Join(indented, ",\n"),
              ")">>, "\n")

\* The column rows the source may return for the column at position i.
SourceColumns(i) ==
    {TiDBColumnInfo(<<"id", "name", "age", "note">>[i], d, n, t) :
        d \in {<<>>, <<"0">>, <<"-1.5">>, <<"abc">>, <<"">>,
               <<"1e400">>, <<"1_000">>, <<"Infinity">>},
        n \in {"true", "false", "YES", "NO"},
        t \in {"int", "varchar", "json"}}

\* The index rows the source may return: <<KEY_NAME, COLUMN_NAME, SEQ_IN_INDEX>>.
SourceIndexes ==
    {<<>>,
     <<<<"PRIMARY", "id", "1">>>>,
     <<<<"idx_name", "name", "1">>, <<"PRIMARY", "name", "2">>, <<"PRIMARY", "id", "1">>>>}

\* The rows of a table of ten columns whose primary key has them all, c1
\* first.
WideTable ==
    [columns |-> [i \in 1..10 |-> TiDBColumnInfo("c" \o Itoa(i), <<>>, "false", "int")],
     indexResults |-> [i \in 1..10 |-> <<"PRIMARY", "c" \o Itoa(i), Itoa(i)>>]]

IdleCrt ==
    [pc |-> "off",
     sourceTable |-> "",
     columns |-> <<>>,       \* the rows of the column query
     indexResults |-> <<>>,  \* the rows of the index query
     columnRows |-> <<>>,    \* the entries built for the columns
     sql |-> "",             \* the text returned
     err |-> "nil"]

\* One call of GenCreateSchema: the column query or the index query fails,
\* or the text is built.
GenCreate ==
    /\ crt.pc = "call"
    /\ \/ crt' = [crt EXCEPT !.pc = "returned", !.err = "column query"]
       \/ crt' = [crt EXCEPT !.pc = "returned", !.err = "index query",
                             !.columnRows = [i \in 1..Len(crt.columns) |->
                                                ColumnRow(crt.columns[i])]]
       \/ crt' = [crt EXCEPT !.pc = "returned",
                             !.columnRows = [i \in 1..Len(crt.columns) |->
                                                ColumnRow(crt.columns[i])],
                             !.sql = CreateSchemaSQL(crt.sourceTable, crt.columns,
                                                     crt.indexResults)]
    /\ UNCHANGED <<run, markers, clock, jobs, snapshotAt, nRuns, ld, sess, mrg, ddl, mod>>

(***************************************************************************)
(* redshiftsql: GetColumnModifyString, the clauses of an ALTER TABLE for   *)
(* one MODIFY entry of the column diff.                                    *)
(***************************************************************************)
\* The clauses collected in strs, the error returned and whether the
\* warning about the default value was logged.
ModifyResult(strs, err, warned) == [strs |-> strs, err |-> err, warned |-> warned]

GetColumnModifyString(diff) ==
    LET typeChanged == \/ diff.Before.Tp # diff.After.Tp
                       \/ diff.Before.Precision # diff.After.Precision
                       \/ diff.Before.Scale # diff.After.Scale
        colStr == GetRedshiftTypeString(diff.After)
        typeStrs == IF typeChanged THEN <<"COLUMN " \o colStr.str>> ELSE <<>>
        defaultChanged == diff.Before.Default # diff.After.Default
        defaultStrs == IF defaultChanged /\ diff.After.Default = <<>>
                       THEN <<"COLUMN " \o diff.After.Name \o " DROP DEFAULT">>
                       ELSE <<>>
        nullableStrs == IF diff.Before.Nullable # diff.After.Nullable
                        THEN IF diff.After.Nullable = "true"
                             THEN <<"COLUMN " \o diff.After.Name \o " DROP NOT NULL">>
                             ELSE <<"COLUMN " \o diff.After.Name \o " SET NOT NULL">>
                        ELSE <<>>
    IN IF typeChanged /\ colStr.err # "nil"
       THEN ModifyResult(<<>>, colStr.err, FALSE)
       ELSE ModifyResult(typeStrs \o defaultStrs \o nullableStrs, "nil",
                         defaultChanged /\ diff.After.Default # <<>>)

\* The two sides of a MODIFY entry.
ModifyCols ==
    {TableCol(1, "age", t[1], t[2], n, d) :
        t \in ColTypes \cup {<<"varchar", "20">>},
        n \in {"true", "false"},
        d \in {<<>>, <<"0">>, <<"1">>}}

IdleMod ==
    [pc |-> "off",
     diff |-> [Action |-> "MODIFY", Before |-> NilCol, After |-> NilCol],
     strs |-> <<>>,     \* the clauses collected
     str |-> "",        \* the text returned
     err |-> "nil",
     warned |-> FALSE]

\* One call of GetColumnModifyString.
GenModify ==
    /\ mod.pc = "call"
    /\ LET r == GetColumnModifyString(mod.diff)
       IN mod' = [mod EXCEPT !.pc = "returned", !.strs = r.strs,
                             !.str = Join(r.strs, ", "), !.err = r.err,
                             !.warned = r.warned]
    /\ UNCHANGED <<run, markers, clock, jobs, snapshotAt, nRuns, ld, sess, mrg, ddl, crt>>

(***************************************************************************)
(* The orchestrator: NewSnowflakeCmd's run function.                       *)
(***************************************************************************)
RunModeFull == "full"
RunModeSnapshotOnly == "snapshot-only"
RunModeIncrementalOnly == "incremental-only"
RunModes == {RunModeFull, RunModeSnapshotOnly, RunModeIncrementalOnly}

\* The --storage flag and the values of the --sink-uri and --table flags.
storagePath == <<"s3://bucket/ws">>
SinkURIFlags == {<<>>, <<"s3", "://", "elsewhere", "/cdc">>, <<"%zz">>}
TableFlags == {<<"db", ".", "t">>, <<"dbt">>, <<>>}

NoURI == <<"nil">>
\* url.JoinPath(storagePath, elem)
JoinPath(base, elem) == base \o <<"/", elem>>

\* url.Parse of a --sink-uri value: an invalid escape is an error, otherwise
\* the URL's scheme, host and path.
URLParseFails(s) == \E i \in 1..Len(s) : s[i] = "%zz"
URLParse(s) ==
    IF Len(s) >= 3 /\ s[2] = "://"
    THEN <<s[1], s[3]>> \o SubSeq(s, 4, Len(s))
    ELSE <<"", "">> \o s

\* A run that has not started: the process is not running.
IdleRun ==
    [pc |-> "idle", mode |-> RunModeFull, sindURIStr |-> <<>>, tableFQN |-> <<>>,
     metadataExist |-> FALSE, loadinfoExist |-> FALSE, startTSO |-> 0,
     sinkURI |-> NoURI, sourceTable |-> <<>>,
     tsoResolved |-> FALSE, \* GetCurrentTSO returned a value in this run
     cfArg |-> -1,          \* the start point handed to createChangefeed, -1 if not called
     snapArg |-> <<>>,      \* the text handed to StartReplicateSnapshot, <<>> if not called
     dbOpened |-> FALSE,    \* OpenDB was called in this run
     increURI |-> NoURI,    \* the sink StartReplicateIncrement attached to
     retry |-> FALSE,       \* the run before this one ended with a snapshot failure
     returnedErr |-> "nil", \* the error the run function of the last process returned
     exitStatus |-> -1,     \* the exit status of the last process, -1 before any
     err |-> "nil"]

\* tidbsql.GetCurrentTSO: the source's current logical timestamp.
GetCurrentTSO(now) == now

\* The start point createChangefeed puts in the request: StartTs stays 0
\* unless startTSO is set.
ChangefeedStartTs(startTSO) == IF startTSO # 0 THEN startTSO ELSE 0

\* The capture service starts a job whose StartTs is 0 at its current time.
EffectiveStart(startTs, now) == IF startTs = 0 THEN now ELSE startTs

\* Step 0 of run: open the storage and read the two markers.
RunCheckStatus ==
    /\ run.pc = "idle"
    /\ nRuns < MaxRuns
    /\ nRuns' = nRuns + 1
    /\ \E m \in RunModes, s \in SinkURIFlags, t \in TableFlags, ok \in BOOLEAN :
          run' = IF ok
                 THEN [run EXCEPT !.pc = "tso", !.mode = m, !.sindURIStr = s,
                                  !.tableFQN = t,
                                  !.metadataExist = markers.metadata,
                                  !.loadinfoExist = markers.loadinfo,
                                  !.returnedErr = "nil", !.exitStatus = -1]
                 ELSE [run EXCEPT !.pc = "failed", !.mode = m, !.sindURIStr = s,
                                  !.tableFQN = t, !.err = "storage",
                                  !.returnedErr = "nil", !.exitStatus = -1]
    /\ UNCHANGED <<markers, clock, jobs, snapshotAt, ld, sess, mrg, ddl, crt, mod>>

\* Step 1 of run: the consistency point, resolved only without the
\* load-finished marker.
RunGetCurrentTSO ==
    /\ run.pc = "tso"
    /\ \/ /\ ~run.loadinfoExist
          /\ \/ run' = [run EXCEPT !.pc = "changefeed",
                                   !.startTSO = GetCurrentTSO(clock),
                                   !.tsoResolved = TRUE]
             \/ run' = [run EXCEPT !.pc = "failed", !.err = "Failed to get current TSO"]
       \/ /\ run.loadinfoExist
          /\ run' = [run EXCEPT !.pc = "changefeed"]
    /\ UNCHANGED <<markers, clock, jobs, snapshotAt, nRuns, ld, sess, mrg, ddl, crt, mod>>

\* A step 2 that treats every incremental-only run as the owner of the job.
OwnsChangefeed_AnyIncremental(r) ==
    r.mode = RunModeFull \/ r.mode = RunModeIncrementalOnly

\* Whether step 2 builds the sink URI of the workspace and may register.
OwnsChangefeed(r) ==
    r.mode = RunModeFull \/ (r.mode = RunModeIncrementalOnly /\ r.sindURIStr = <<>>)

\* A step 2 that never calls createChangefeed.
MustCreateChangefeed_Never(r) == FALSE

\* The condition under which step 2 calls createChangefeed.
MustCreateChangefeed(r) == ~r.loadinfoExist \/ ~r.metadataExist

\* The capture job a call createChangefeed(.., startTSO) registers.
NewJob(startTSO) ==
    [StartTs |-> ChangefeedStartTs(startTSO),
     start |-> EffectiveStart(ChangefeedStartTs(startTSO), clock),
     run |-> nRuns]

\* Step 2 of run: the sink URI and the capture job.
RunCreateChangefeed ==
    /\ run.pc = "changefeed"
    /\ \/ /\ OwnsChangefeed(run)
          /\ \/ \* genSinkURI fails (credentials, scheme)
                /\ run' = [run EXCEPT !.pc = "failed", !.err = "sink uri"]
                /\ UNCHANGED jobs
             \/ /\ MustCreateChangefeed(run)
                /\ \/ \* the request is accepted: the job exists
                      /\ jobs' = Append(jobs, NewJob(run.startTSO))
                      /\ run' = [run EXCEPT !.pc = "table",
                                            !.sinkURI = JoinPath(storagePath, "increment"),
                                            !.cfArg = run.startTSO]
                   \/ \* the request is accepted, reading the answer fails
                      /\ jobs' = Append(jobs, NewJob(run.startTSO))
                      /\ run' = [run EXCEPT !.pc = "failed",
                                            !.sinkURI = JoinPath(storagePath, "increment"),
                                            !.cfArg = run.startTSO,
                                            !.err = "Failed to create changefeed"]
                   \/ \* the request is accepted and the answer has no string
                      \* "id" or no object "config": the type assertion panics
                      \* and the process ends with exit status 2
                      /\ jobs' = Append(jobs, NewJob(run.startTSO))
                      /\ run' = [IdleRun EXCEPT !.exitStatus = 2]
                   \/ \* the request fails
                      /\ UNCHANGED jobs
                      /\ run' = [run EXCEPT !.pc = "failed",
                                            !.sinkURI = JoinPath(storagePath, "increment"),
                                            !.cfArg = run.startTSO,
                                            !.err = "Failed to create changefeed"]
             \/ /\ ~MustCreateChangefeed(run)
                /\ UNCHANGED jobs
                /\ run' = [run EXCEPT !.pc = "table",
                                      !.sinkURI = JoinPath(storagePath, "increment")]
       \/ /\ ~OwnsChangefeed(run)
          /\ run.mode = RunModeIncrementalOnly /\ run.sindURIStr # <<>>
          /\ UNCHANGED jobs
          /\ run' = IF URLParseFails(run.sindURIStr)
                    THEN [run EXCEPT !.pc = "failed", !.err = "sink uri"]
                    ELSE [run EXCEPT !.pc = "table", !.sinkURI = URLParse(run.sindURIStr)]
       \/ /\ ~OwnsChangefeed(run)
          /\ ~(run.mode = RunModeIncrementalOnly /\ run.sindURIStr # <<>>)
          /\ UNCHANGED jobs
          /\ run' = [run EXCEPT !.pc = "table"]
    /\ UNCHANGED <<markers, clock, snapshotAt, nRuns, ld, sess, mrg, ddl, crt, mod>>

\* The table name: <database>.<table>, checked only when it is given.
RunParseTable ==
    /\ run.pc = "table"
    /\ LET parts == SplitN2(run.tableFQN, ".")
       IN \/ /\ run.tableFQN # <<>> /\ Len(parts) # 2
             /\ run' = [run EXCEPT !.pc = "failed", !.err = "table must be a full-qualified name"]
          \/ /\ run.tableFQN # <<>> /\ Len(parts) = 2
             /\ run' = [run EXCEPT !.pc = "snapshot", !.sourceTable = parts[2]]
          \/ /\ run.tableFQN = <<>>
             /\ run' = [run EXCEPT !.pc = "snapshot"]
    /\ UNCHANGED <<markers, clock, jobs, snapshotAt, nRuns, ld, sess, mrg, ddl, crt, mod>>

\* A run that repeats the snapshot whatever the load-finished marker says.
MustReplicateSnapshot_IgnoresMarker(r) ==
    r.mode = RunModeFull \/ r.mode = RunModeSnapshotOnly

\* Whether step 3 runs the snapshot replication.
MustReplicateSnapshot(r) ==
    (r.mode = RunModeFull \/ r.mode = RunModeSnapshotOnly) /\ ~r.loadinfoExist

\* A step 4 that runs the incremental replication in every mode.
MustReplicateIncrement_AnyMode(r) == TRUE

\* Whether step 4 runs the incremental replication.
MustReplicateIncrement(r) ==
    r.mode = RunModeFull \/ r.mode = RunModeIncrementalOnly

\* A run that hands the snapshot the source's time at step 3, not the
\* consistency point of step 1.
SnapshotTSOArg_AtSnapshotTime(r) == FmtUint(clock)

\* The text of the consistency point handed to the snapshot replication.
SnapshotTSOArg(r) == FmtUint(r.startTSO)

\* A step 3 whose failed snapshot replication leaves the load-finished marker
\* behind.
RunReplicateSnapshot_MarksOnFailure ==
    /\ run.pc = "snapshot"
    /\ \/ /\ MustReplicateSnapshot(run)
          /\ \/ /\ run' = [run EXCEPT !.pc = "failed", !.dbOpened = TRUE,
                                      !.snapArg = SnapshotTSOArg(run),
                                      !.err = "Failed to replicate snapshot"]
                /\ markers' = [markers EXCEPT !.loadinfo = TRUE]
                /\ UNCHANGED snapshotAt
             \/ /\ run' = [run EXCEPT !.pc = "increment", !.dbOpened = TRUE,
                                      !.snapArg = SnapshotTSOArg(run)]
                /\ markers' = [markers EXCEPT !.loadinfo = TRUE]
                /\ snapshotAt' = SnapshotTSOArg(run)
       \/ /\ ~MustReplicateSnapshot(run)
          /\ run' = [run EXCEPT !.pc = "increment"]
          /\ UNCHANGED <<markers, snapshotAt>>
    /\ UNCHANGED <<clock, jobs, nRuns, ld, sess, mrg, ddl, crt, mod>>

\* Step 3 of run: the snapshot replication. StartReplicateSnapshot dumps the
\* table at the consistency point it is handed and loads it; completing the
\* load writes snapshot/loadinfo.
RunReplicateSnapshot ==
    /\ run.pc = "snapshot"
    /\ \/ /\ MustReplicateSnapshot(run)
          /\ \/ \* OpenDB or NewSnowflakeConnector fails
                /\ run' = [run EXCEPT !.pc = "failed", !.dbOpened = TRUE, !.err = "open db"]
                /\ UNCHANGED <<markers, snapshotAt>>
             \/ \* the snapshot replication fails
                /\ run' = [run EXCEPT !.pc = "failed", !.dbOpened = TRUE,
                                      !.snapArg = SnapshotTSOArg(run),
                                      !.err = "Failed to replicate snapshot"]
                /\ UNCHANGED <<markers, snapshotAt>>
             \/ \* the snapshot replication succeeds
                /\ run' = [run EXCEPT !.pc = "increment", !.dbOpened = TRUE,
                                      !.snapArg = SnapshotTSOArg(run)]
                /\ markers' = [markers EXCEPT !.loadinfo = TRUE]
                /\ snapshotAt' = SnapshotTSOArg(run)
       \/ /\ ~MustReplicateSnapshot(run)
          /\ run' = [run EXCEPT !.pc = "increment"]
          /\ UNCHANGED <<markers, snapshotAt>>
    /\ UNCHANGED <<clock, jobs, nRuns, ld, sess, mrg, ddl, crt, mod>>

\* Step 4 of run: the warehouse connection and the start of the incremental
\* replication.
RunReplicateIncrement ==
    /\ run.pc = "increment"
    /\ \/ /\ MustReplicateIncrement(run)
          /\ \/ run' = [run EXCEPT !.pc = "failed", !.dbOpened = TRUE, !.err = "open db"]
             \/ run' = [run EXCEPT !.pc = "replicating", !.dbOpened = TRUE,
                                   !.increURI = run.sinkURI]
       \/ /\ ~MustReplicateIncrement(run)
          /\ run' = [run EXCEPT !.pc = "done"]
    /\ UNCHANGED <<markers, clock, jobs, snapshotAt, nRuns, ld, sess, mrg, ddl, crt, mod>>

\* StartReplicateIncrement returns an error: run returns it annotated.
RunIncrementFails ==
    /\ run.pc = "replicating"
    /\ run' = [run EXCEPT !.pc = "failed", !.err = "Failed to replicate incremental"]
    /\ UNCHANGED <<markers, clock, jobs, snapshotAt, nRuns, ld, sess, mrg, ddl, crt, mod>>

\* StartReplicateIncrement returns nil: run returns nil.
RunIncrementReturns ==
    /\ run.pc = "replicating"
    /\ run' = [run EXCEPT !.pc = "done"]
    /\ UNCHANGED <<markers, clock, jobs, snapshotAt, nRuns, ld, sess, mrg, ddl, crt, mod>>

\* The command's Run function panics before it calls run: the logger cannot
\* be initialised, the storage path does not parse, or the credentials of an
\* s3 storage cannot be resolved. The process ends with exit status 2 before
\* any step of run.
RunPanics ==
    /\ run.pc = "idle"
    /\ run' = [run EXCEPT !.returnedErr = "nil", !.exitStatus = 2]
    /\ UNCHANGED <<markers, clock, jobs, snapshotAt, nRuns, ld, sess, mrg, ddl, crt, mod>>

\* The process ends. When run has returned, the command's Run function logs
\* the error, if any, and returns, and the process exits with status 0; a
\* process killed at any other point of the run ends with the status of the
\* signal. The next invocation starts from the markers alone.
RunExit ==
    /\ run.pc # "idle"
    /\ run' = [IdleRun EXCEPT
                  !.retry = (run.err = "Failed to replicate snapshot"),
                  !.returnedErr = IF run.pc \in {"failed", "done"} THEN run.err ELSE "nil",
                  !.exitStatus = IF run.pc \in {"failed", "done"} THEN 0 ELSE 137]
    /\ UNCHANGED <<markers, clock, jobs, snapshotAt, nRuns, ld, sess, mrg, ddl, crt, mod>>

\* The source commits: its logical timestamp advances.
SourceTick ==
    /\ clock < MaxTSO
    /\ clock' = clock + 1
    /\ UNCHANGED <<run, markers, jobs, snapshotAt, nRuns, ld, sess, mrg, ddl, crt, mod>>

\* The capture service flushes to the workspace's sink: increment/metadata
\* appears once a job is registered.
CaptureWritesMetadata ==
    /\ jobs # <<>>
    /\ ~markers.metadata
    /\ markers' = [markers EXCEPT !.metadata = TRUE]
    /\ UNCHANGED <<run, clock, jobs, snapshotAt, nRuns, ld, sess, mrg, ddl, crt, mod>>


(***************************************************************************)
(* Claims about the orchestrator.                                          *)
(***************************************************************************)
\* A capture job was registered by the run in progress.
RegisteredInRun ==
    run.pc # "idle" /\ \E j \in 1..Len(jobs) : jobs[j].run = nRuns

\* C1: a run that finds the capture-metadata marker present registers no
\* capture job, in every mode and for every state of the load-finished marker.
C1_NoJobWhenMetadataPresent ==
    run.metadataExist => ~RegisteredInRun

\* C2: once a snapshot is loaded and a capture job is registered, some
\* registered job starts at or before the snapshot's consistency point, so no
\* change committed after that point is missing from the captured stream.
C2_NoGapAfterSnapshot ==
    (snapshotAt # <<>> /\ jobs # <<>>) =>
        \E j \in 1..Len(jobs) : jobs[j].start <= ParseUint(snapshotAt)

\* C3: the start point handed to createChangefeed is a consistency point
\* resolved in the same run, never the unset value 0.
C3_StartPointResolvedInRun ==
    run.cfArg # -1 => (run.tsoResolved /\ run.cfArg = run.startTSO /\ run.cfArg # 0)

\* C4: in a run that invokes the snapshot replication the consistency point
\* was resolved before, the snapshot is handed that point and so is the
\* registration of the same run; when resolving fails the run has neither
\* registered a job nor touched the snapshot.
C4_SnapshotAtResolvedPoint ==
    /\ run.snapArg # <<>> =>
          /\ run.tsoResolved
          /\ run.startTSO # 0
          /\ ParseUint(run.snapArg) = run.startTSO
          /\ (run.cfArg # -1 => run.cfArg = ParseUint(run.snapArg))
          /\ (run.mode = RunModeFull => run.cfArg # -1)
    /\ snapshotAt # <<>> => ParseUint(snapshotAt) \in 1..clock
    /\ run.err = "Failed to get current TSO" =>
          /\ ~RegisteredInRun
          /\ run.cfArg = -1
          /\ run.snapArg = <<>>
          /\ ~run.dbOpened

\* C4's case: a full-mode run registered its job and loaded the snapshot, both
\* at the point resolved at step 1, while the source has moved on since.
C4_Witness ==
    /\ run.mode = RunModeFull
    /\ run.pc = "increment"
    /\ run.snapArg = <<2>>
    /\ run.cfArg = 2
    /\ clock = 3

\* C5: a run started with the load-finished marker present resolves no
\* consistency point and invokes no snapshot replication in any mode; it
\* reaches step 4 without having opened the warehouse, never fails with a
\* snapshot error, and in full or incremental-only mode never returns
\* without having entered the incremental replication.
C5_LoadedSkipsSnapshot ==
    run.loadinfoExist =>
        /\ run.snapArg = <<>>
        /\ ~run.tsoResolved
        /\ run.pc = "increment" => ~run.dbOpened
        /\ run.err \notin {"Failed to replicate snapshot", "Failed to get current TSO"}
        /\ (MustReplicateIncrement(run) /\ run.pc = "done") => run.increURI # NoURI
        /\ run.pc = "replicating" => run.increURI = run.sinkURI

\* C5's case: a full-mode run that found the load-finished marker is in the
\* incremental replication.
C5_Witness ==
    /\ run.loadinfoExist
    /\ run.mode = RunModeFull
    /\ run.pc = "replicating"

\* C13: when the table name is not of the form <database>.<table>, the run
\* returns the configuration error before any side effect: no capture job
\* registered by the run, the source not asked for its timestamp, no
\* warehouse connection opened, no replication started.
C13_MalformedTableNoSideEffect ==
    run.err = "table must be a full-qualified name" =>
        /\ ~RegisteredInRun
        /\ run.cfArg = -1
        /\ ~run.tsoResolved
        /\ ~run.dbOpened
        /\ run.snapArg = <<>>
        /\ run.increURI = NoURI

\* C14: an incremental-only run with a supplied sink URI never calls
\* createChangefeed and registers no job, whatever the markers are, and its
\* incremental replication attaches to the supplied URI.
C14_SuppliedSinkNoRegistration ==
    (run.mode = RunModeIncrementalOnly /\ run.sindURIStr # <<>>) =>
        /\ run.cfArg = -1
        /\ ~RegisteredInRun
        /\ run.sinkURI \in {NoURI, URLParse(run.sindURIStr)}
        /\ run.pc = "replicating" =>
              (run.increURI = URLParse(run.sindURIStr) /\ run.increURI # NoURI)

\* C14's case: with neither marker in the workspace, an incremental-only run
\* with a supplied sink URI is in the incremental replication.
C14_Witness ==
    /\ run.mode = RunModeIncrementalOnly
    /\ run.sindURIStr = <<"s3", "://", "elsewhere", "/cdc">>
    /\ ~run.metadataExist /\ ~run.loadinfoExist
    /\ run.pc = "replicating"
    /\ run.increURI = <<"s3", "elsewhere", "/cdc">>
    /\ jobs = <<>>

\* The run has got past step 3.
PastSnapshot(r) == r.pc \in {"increment", "replicating", "done"}

\* C15: a run whose snapshot replication fails stops with that error, has
\* not started the incremental replication, and no step of that run, the
\* failing one included, changes a marker; the run after it, when it finds the load-finished
\* marker absent, resolves a consistency point of its own and hands it to a
\* snapshot replication started anew.
C15_SnapshotFailureRetried ==
    /\ [](run.err = "Failed to replicate snapshot" =>
             (run.pc = "failed" /\ run.increURI = NoURI))
    /\ []((run.retry /\ run.snapArg # <<>>) =>
             (run.tsoResolved /\ ~run.loadinfoExist
              /\ ParseUint(run.snapArg) = run.startTSO /\ run.startTSO \in 1..clock))
    /\ []((run.retry /\ ~run.loadinfoExist /\ PastSnapshot(run)
            /\ run.mode \in {RunModeFull, RunModeSnapshotOnly}) => run.snapArg # <<>>)
    /\ [][(run' # run /\ (run.err' = "Failed to replicate snapshot"
                           \/ run.err = "Failed to replicate snapshot"))
            => (markers' = markers /\ snapshotAt' = snapshotAt)]_vars

\* C15's case: a run after one whose snapshot failed found the markers as
\* they were, resolved a later consistency point and loaded the snapshot.
C15_Witness ==
    /\ run.retry
    /\ run.mode = RunModeSnapshotOnly
    /\ ~run.loadinfoExist /\ ~run.metadataExist
    /\ run.pc = "increment"
    /\ run.snapArg = <<3>>
    /\ snapshotAt = <<3>>
    /\ markers.loadinfo

\* C28: a process whose run function returned an error does not exit with
\* status zero.
C28_FatalErrorNonZeroExit ==
    (run.exitStatus # -1 /\ run.returnedErr # "nil") => run.exitStatus # 0

\* The run in progress has started the incremental replication.
IncrementStarted(r) ==
    r.pc = "replicating" \/ r.err = "Failed to replicate incremental" \/ r.increURI # NoURI

\* C30: a snapshot-only run registers no capture job and never starts the
\* incremental replication; an incremental-only run never starts the
\* snapshot replication; a full run starts the incremental replication only
\* after its snapshot replication succeeded, or without one when it found
\* the load-finished marker.
C30_ModeGatesPhases ==
    run.pc # "idle" =>
        /\ run.mode = RunModeSnapshotOnly =>
              (~RegisteredInRun /\ run.cfArg = -1 /\ ~IncrementStarted(run)
               /\ run.increURI = NoURI)
        /\ run.mode = RunModeIncrementalOnly => run.snapArg = <<>>
        /\ (run.mode = RunModeFull /\ IncrementStarted(run)) =>
              \/ run.loadinfoExist /\ run.snapArg = <<>>
              \/ ~run.loadinfoExist /\ run.snapArg # <<>> /\ markers.loadinfo

C30_Witness ==
    /\ run.mode = RunModeFull
    /\ run.pc = "replicating"
    /\ ~run.loadinfoExist
    /\ run.snapArg # <<>>
    /\ markers.loadinfo
    /\ RegisteredInRun

\* C31: in a full-mode run that registers the capture job and replicates the
\* snapshot, the job is registered before the warehouse connection is opened
\* and the snapshot replication starts; when the registration fails the run
\* returns that error, opens no connection and starts no snapshot work.
C31_RegisteredBeforeSnapshot ==
    run.pc # "idle" =>
        /\ (run.mode = RunModeFull /\ ~run.loadinfoExist
            /\ (run.dbOpened \/ run.snapArg # <<>>)) =>
              (RegisteredInRun /\ run.cfArg = run.startTSO)
        /\ run.err = "Failed to create changefeed" =>
              /\ run.pc = "failed"
              /\ ~run.dbOpened
              /\ run.snapArg = <<>>
              /\ run.increURI = NoURI
              /\ markers.loadinfo = run.loadinfoExist

C31_Witness ==
    /\ run.mode = RunModeFull
    /\ ~run.loadinfoExist /\ ~run.metadataExist
    /\ run.pc = "increment"
    /\ run.dbOpened
    /\ run.snapArg = <<2>>
    /\ run.cfArg = 2
    /\ RegisteredInRun

(***************************************************************************)
(* LoadSnapshotFromStage: the caller (pc) and the goroutine that polls the *)
(* query history (poller). copyFinished is an unbuffered channel: a send   *)
(* completes only together with a receive.                                 *)
(***************************************************************************)
ReqIds == {"uuid-a", "uuid-b"}

IdleLd ==
    [pc |-> "off", poller |-> "none",
     hasCallback |-> FALSE, \* onSnapshotLoadProgress # nil
     ts |-> 0,              \* the server-side timestamp captured first, 0 if none
     reqId |-> "",          \* the request id in the statement's comment
     now |-> 1,             \* the warehouse's current time
     issued |-> FALSE,      \* the COPY INTO statement was sent
     execErr |-> FALSE,     \* the COPY INTO statement failed
     ticker |-> FALSE,      \* the poller's ticker runs
     tick |-> FALSE,        \* a tick waits in ticker.C
     wg |-> 0,              \* the WaitGroup's counter
     stops |-> 0,           \* values received from copyFinished
     polls |-> 0,           \* history queries made
     pollErr |-> FALSE,     \* the last history query failed
     reported |-> 0,        \* calls of the progress callback
     filter |-> <<>>,       \* the timestamp and request id of the last history query
     late |-> 0,            \* polls and callbacks made after the function returned
     ret |-> "none"]        \* the returned error: "nil", or the error's origin

\* A caller that goes on without a timestamp when the query for it fails.
LoadGetTimestamp_IgnoresError ==
    /\ ld.pc = "ts"
    /\ \/ ld' = [ld EXCEPT !.pc = "format", !.ts = ld.now]
       \/ ld' = [ld EXCEPT !.pc = "format"]
    /\ UNCHANGED <<run, markers, clock, jobs, snapshotAt, nRuns, sess, mrg, ddl, crt, mod>>

\* GetServerSideTimestamp: SELECT CURRENT_TIMESTAMP.
LoadGetTimestamp ==
    /\ ld.pc = "ts"
    /\ \/ ld' = [ld EXCEPT !.pc = "format", !.ts = ld.now]
       \/ ld' = [ld EXCEPT !.pc = "returned", !.ret = "timestamp"]
    /\ UNCHANGED <<run, markers, clock, jobs, snapshotAt, nRuns, sess, mrg, ddl, crt, mod>>

\* A fresh request id, the statement text, wg.Add(1), the channel, and the
\* goroutine is started.
LoadSpawnPoller ==
    /\ ld.pc = "format"
    /\ \E id \in ReqIds :
          ld' = [ld EXCEPT !.pc = "issue", !.reqId = id, !.wg = 1, !.poller = "start"]
    /\ UNCHANGED <<run, markers, clock, jobs, snapshotAt, nRuns, sess, mrg, ddl, crt, mod>>

\* db.ExecContext sends the COPY INTO statement and blocks.
LoadIssue ==
    /\ ld.pc = "issue"
    /\ ld' = [ld EXCEPT !.pc = "exec", !.issued = TRUE]
    /\ UNCHANGED <<run, markers, clock, jobs, snapshotAt, nRuns, sess, mrg, ddl, crt, mod>>

\* db.ExecContext returns, with or without an error.
LoadExecReturns ==
    /\ ld.pc = "exec"
    /\ \E failed \in BOOLEAN :
          ld' = [ld EXCEPT !.pc = "send", !.execErr = failed]
    /\ UNCHANGED <<run, markers, clock, jobs, snapshotAt, nRuns, sess, mrg, ddl, crt, mod>>

\* copyFinished <- struct{}{} in the caller together with <-copyFinished in
\* the poller's select: the poller leaves its loop.
LoadStopPoller ==
    /\ ld.pc = "send"
    /\ ld.poller = "select"
    /\ ld' = [ld EXCEPT !.pc = "wait", !.poller = "returning", !.stops = ld.stops + 1]
    /\ UNCHANGED <<run, markers, clock, jobs, snapshotAt, nRuns, sess, mrg, ddl, crt, mod>>

\* A caller that returns without waiting for the poller.
LoadWait_NoJoin ==
    /\ ld.pc = "wait"
    /\ ld' = [ld EXCEPT !.pc = "returned",
                        !.ret = IF ld.execErr THEN "exec" ELSE "nil"]
    /\ UNCHANGED <<run, markers, clock, jobs, snapshotAt, nRuns, sess, mrg, ddl, crt, mod>>

\* A caller that returns the error of the last history query.
LoadWait_ReturnsPollErr ==
    /\ ld.pc = "wait"
    /\ ld.wg = 0
    /\ ld' = [ld EXCEPT !.pc = "returned",
                        !.ret = IF ld.pollErr THEN "poll"
                                ELSE IF ld.execErr THEN "exec" ELSE "nil"]
    /\ UNCHANGED <<run, markers, clock, jobs, snapshotAt, nRuns, sess, mrg, ddl, crt, mod>>

\* wg.Wait() and return err.
LoadWait ==
    /\ ld.pc = "wait"
    /\ ld.wg = 0
    /\ ld' = [ld EXCEPT !.pc = "returned",
                        !.ret = IF ld.execErr THEN "exec" ELSE "nil"]
    /\ UNCHANGED <<run, markers, clock, jobs, snapshotAt, nRuns, sess, mrg, ddl, crt, mod>>

\* The goroutine's first statements: without a callback it returns at once,
\* otherwise it starts its ticker and enters the loop.
PollerStart ==
    /\ ld.poller = "start"
    /\ ld' = IF ~ld.hasCallback
             THEN [ld EXCEPT !.poller = "returning"]
             ELSE [ld EXCEPT !.poller = "select", !.ticker = TRUE]
    /\ UNCHANGED <<run, markers, clock, jobs, snapshotAt, nRuns, sess, mrg, ddl, crt, mod>>

\* The ticker puts a tick in its channel (every checkInterval).
TickerFires ==
    /\ ld.ticker
    /\ ~ld.tick
    /\ ld.polls < MaxPolls
    /\ ld' = [ld EXCEPT !.tick = TRUE]
    /\ UNCHANGED <<run, markers, clock, jobs, snapshotAt, nRuns, sess, mrg, ddl, crt, mod>>

\* case <-ticker.C of the select.
PollerTakesTick ==
    /\ ld.poller = "select"
    /\ ld.tick
    /\ ld' = [ld EXCEPT !.poller = "query", !.tick = FALSE]
    /\ UNCHANGED <<run, markers, clock, jobs, snapshotAt, nRuns, sess, mrg, ddl, crt, mod>>

\* The history query, filtered by the captured timestamp and the request id;
\* its error is logged only.
PollerQuery ==
    /\ ld.poller = "query"
    /\ \E failed \in BOOLEAN :
          ld' = [ld EXCEPT !.poller = "callback", !.polls = ld.polls + 1,
                           !.pollErr = failed,
                           !.filter = <<ld.ts, ld.reqId>>,
                           !.late = IF ld.pc = "returned" THEN ld.late + 1 ELSE ld.late]
    /\ UNCHANGED <<run, markers, clock, jobs, snapshotAt, nRuns, sess, mrg, ddl, crt, mod>>

\* onSnapshotLoadProgress(rowsProduced), then back to the select.
PollerCallback ==
    /\ ld.poller = "callback"
    /\ ld' = [ld EXCEPT !.poller = "select", !.reported = ld.reported + 1,
                        !.late = IF ld.pc = "returned" THEN ld.late + 1 ELSE ld.late]
    /\ UNCHANGED <<run, markers, clock, jobs, snapshotAt, nRuns, sess, mrg, ddl, crt, mod>>

\* The goroutine returns: its deferred ticker.Stop() and wg.Done() run.
PollerReturns ==
    /\ ld.poller = "returning"
    /\ ld' = [ld EXCEPT !.poller = "exited", !.ticker = FALSE, !.wg = ld.wg - 1]
    /\ UNCHANGED <<run, markers, clock, jobs, snapshotAt, nRuns, sess, mrg, ddl, crt, mod>>

\* The warehouse's time passes.
WarehouseTick ==
    /\ ld.pc # "off"
    /\ ld.now < MaxServerTime
    /\ ld' = [ld EXCEPT !.now = ld.now + 1]
    /\ UNCHANGED <<run, markers, clock, jobs, snapshotAt, nRuns, sess, mrg, ddl, crt, mod>>

\* The steps of the caller and of its poller.
LoadSteps ==
    \/ LoadGetTimestamp \/ LoadSpawnPoller \/ LoadIssue \/ LoadExecReturns
    \/ LoadStopPoller \/ LoadWait
    \/ PollerStart \/ PollerTakesTick \/ PollerQuery \/ PollerCallback
    \/ PollerReturns

InitLoad ==
    /\ run = IdleRun
    /\ markers = [loadinfo |-> FALSE, metadata |-> FALSE]
    /\ clock = 1
    /\ jobs = <<>>
    /\ snapshotAt = <<>>
    /\ nRuns = 0
    /\ \E cb \in BOOLEAN : ld = [IdleLd EXCEPT !.pc = "ts", !.hasCallback = cb]
    /\ sess = IdleSess
    /\ mrg = IdleMrg
    /\ ddl = IdleDDL
    /\ crt = IdleCrt
    /\ mod = IdleMod

NextLoad ==
    \/ LoadGetTimestamp
    \/ LoadSpawnPoller
    \/ LoadIssue
    \/ LoadExecReturns
    \/ LoadStopPoller
    \/ LoadWait
    \/ PollerStart
    \/ TickerFires
    \/ PollerTakesTick
    \/ PollerQuery
    \/ PollerCallback
    \/ PollerReturns
    \/ WarehouseTick

SpecLoad == InitLoad /\ [][NextLoad]_vars

(***************************************************************************)
(* Claims about LoadSnapshotFromStage.                                     *)
(***************************************************************************)
\* C6: once the load statement has returned, LoadSnapshotFromStage returns:
\* while it has not, the caller or its poller can take a step, with or
\* without a progress callback and wherever the poller is.
C6_ReturnsAfterLoad ==
    ld.pc \in {"send", "wait"} => ENABLED LoadSteps

\* C7: when LoadSnapshotFromStage has returned its poller has ended, it was
\* stopped at most once (exactly once when it was started), and no history
\* query and no progress callback is made after the return.
C7_PollerJoinedBeforeReturn ==
    /\ ld.pc = "returned" =>
          /\ ld.poller \in {"none", "exited"}
          /\ ld.wg = 0
          /\ ~ld.ticker
          /\ ld.stops = (IF ld.poller = "exited" THEN 1 ELSE 0)
    /\ ld.late = 0
    /\ ld.stops <= 1

\* C7's case: the function returned after its poller made a history query and
\* a callback.
C7_Witness ==
    /\ ld.pc = "returned"
    /\ ld.poller = "exited"
    /\ ld.stops = 1
    /\ ld.polls >= 1
    /\ ld.reported >= 1

\* C16: the value LoadSnapshotFromStage returns after the load statement ran
\* is the statement's result, nil or its error, however many history queries
\* ran and whether they failed; when it returns without having sent the
\* statement no history query was made.
C16_PollFailureNotPropagated ==
    /\ (ld.pc = "returned" /\ ld.issued) =>
          ld.ret = (IF ld.execErr THEN "exec" ELSE "nil")
    /\ (ld.pc = "returned" /\ ~ld.issued) => (ld.ret = "timestamp" /\ ld.polls = 0)
    /\ ld.pc # "returned" => ld.ret = "none"

\* C16's case: the load statement succeeded, the last of the history queries
\* failed, and the function returned nil.
C16_Witness ==
    /\ ld.pc = "returned"
    /\ ld.polls = MaxPolls
    /\ ld.pollErr
    /\ ~ld.execErr
    /\ ld.ret = "nil"


\* C27: the server-side timestamp is captured before the load statement is
\* issued and before the poller starts; every history query filters by that
\* timestamp and by the request id of this load; when capturing the
\* timestamp fails the function returns that error, issues no load statement
\* and starts no poller.
C27_HorizonBeforeLoad ==
    /\ (ld.issued \/ ld.poller # "none") => (ld.ts \in 1..ld.now /\ ld.reqId \in ReqIds)
    /\ ld.polls > 0 => (ld.filter = <<ld.ts, ld.reqId>> /\ ld.ts \in 1..ld.now)
    /\ (ld.pc \notin {"off", "ts"} /\ ld.ts = 0) =>
          /\ ld.pc = "returned"
          /\ ld.ret = "timestamp"
          /\ ~ld.issued
          /\ ld.poller = "none"
          /\ ld.polls = 0

C27_Witness ==
    /\ ld.issued
    /\ ld.polls = 2
    /\ ld.ts = 1
    /\ ld.now = 2
    /\ ld.filter = <<1, "uuid-b">>


InitSession ==
    /\ run = IdleRun
    /\ markers = [loadinfo |-> FALSE, metadata |-> FALSE]
    /\ clock = 1
    /\ jobs = <<>>
    /\ snapshotAt = <<>>
    /\ nRuns = 0
    /\ ld = IdleLd
    /\ sess = [IdleSess EXCEPT !.pc = "stage"]
    /\ mrg = IdleMrg
    /\ ddl = IdleDDL
    /\ crt = IdleCrt
    /\ mod = IdleMod

NextSession ==
    \/ SessCreateStage
    \/ SessListObjects
    \/ SessLoadPart
    \/ SessDropStage

SpecSession == InitSession /\ [][NextSession]_vars

(***************************************************************************)
(* Claims about the session's snapshot load.                               *)
(***************************************************************************)
\* C8: when no listed object matches the part-file naming convention, also
\* when objects are listed and none matches, the load fails with "No snapshot
\* files found" and issues no load statement: it never reports success with
\* zero parts loaded.
C8_NoMatchingFilesFails ==
    /\ (sess.listed /\ FilterSnapshots(sess.contents) = <<>>) =>
          (sess.pc = "failed" /\ sess.err = "No snapshot files found" /\ sess.loads = <<>>)
    /\ sess.pc = "done" => sess.loads # <<>>

\* C26: the stage exists when a load statement is issued; the load statements
\* are issued one per matched part-file, in listing order; the stage is
\* dropped only after the load of the last part has succeeded, and the load
\* reports success only with every part loaded and the stage dropped.
C26_StageAroundLoads ==
    /\ [](sess.listed => sess.dumpedSnapshots = FilterSnapshots(sess.contents))
    /\ [](sess.loads = SubSeq(sess.dumpedSnapshots, 1, Len(sess.loads)))
    /\ [](sess.pc = "done" =>
             (sess.loads = sess.dumpedSnapshots /\ ~sess.stage /\ sess.err = "nil"))
    /\ [][sess.loads' # sess.loads =>
             /\ sess.stage /\ sess.stage'
             /\ Len(sess.loads) < Len(sess.dumpedSnapshots)
             /\ sess.loads' = Append(sess.loads, sess.dumpedSnapshots[Len(sess.loads) + 1])]_vars
    /\ [][(sess.stage /\ ~sess.stage') =>
             /\ sess.loads = sess.dumpedSnapshots
             /\ sess.err = "nil"
             /\ sess.loads' = sess.loads
             /\ sess'.pc = "done"]_vars

C26_Witness ==
    /\ sess.pc = "done"
    /\ Len(sess.loads) = 2
    /\ Len(sess.contents) > 2
    /\ ~sess.stage

\* C32: when the load statement of a part fails, the load returns the error
\* at once: the failed statement is the last one issued, no statement is
\* issued for the parts after it, and the stage is not dropped.
C32_LoadFailureStops ==
    /\ [](sess.err = "load" =>
             /\ sess.pc = "failed"
             /\ sess.stage
             /\ sess.loads # <<>>
             /\ sess.loads = SubSeq(sess.dumpedSnapshots, 1, Len(sess.loads)))
    /\ [][sess.err = "load" => (sess.loads' = sess.loads /\ sess.stage')]_vars
    /\ [][(sess.err = "nil" /\ sess.err' = "load") =>
             /\ sess.loads' = Append(sess.loads, sess.dumpedSnapshots[Len(sess.loads) + 1])
             /\ sess.stage /\ sess.stage']_vars

C32_Witness ==
    /\ sess.err = "load"
    /\ sess.pc = "failed"
    /\ Len(sess.dumpedSnapshots) = 2
    /\ Len(sess.loads) = 1
    /\ sess.stage

(***************************************************************************)
(* ReplicateSession.Run from its first statement.                          *)
(***************************************************************************)
InitSessionRun ==
    /\ run = IdleRun
    /\ markers = [loadinfo |-> FALSE, metadata |-> FALSE]
    /\ clock = 1
    /\ jobs = <<>>
    /\ snapshotAt = <<>>
    /\ nRuns = 0
    /\ ld = IdleLd
    /\ sess = [IdleSess EXCEPT !.pc = "ping snowflake"]
    /\ mrg = IdleMrg
    /\ ddl = IdleDDL
    /\ crt = IdleCrt
    /\ mod = IdleMod

NextSessionRun ==
    \/ SessPingSnowflake
    \/ SessPingTiDB
    \/ SessBuildDumper
    \/ SessPrepareTargetTable
    \/ SessDump
    \/ SessCreateStage
    \/ SessListObjects
    \/ SessLoadPart
    \/ SessDropStage

SpecSessionRun == InitSessionRun /\ [][NextSessionRun]_vars

\* The steps of Run before the load, in their order.
RunSteps == <<"ping snowflake", "ping tidb", "build dumper", "create table", "dump">>

\* The load has started: its stage, its listing or a load statement.
LoadStarted ==
    \/ sess.stage \/ sess.listed \/ sess.loads # <<>>
    \/ sess.pc \in {"list", "load", "done"}

\* C33: Run is a strictly ordered pipeline: warehouse ping, source ping,
\* consistency point (an empty one fails), target table, dump, load. A step
\* starts only after every earlier step succeeded; no load is issued unless
\* the dump succeeded and no dump runs without a non-empty consistency point.
C33_OrderedPipeline ==
    /\ sess.steps = SubSeq(RunSteps, 1, Len(sess.steps))
    /\ sess.ok \in {Len(sess.steps) - 1, Len(sess.steps)}
    /\ sess.ok < Len(sess.steps) => (sess.pc = "failed" /\ ~LoadStarted)
    /\ LoadStarted => (sess.dumped /\ sess.ok = Len(RunSteps))
    /\ sess.dumped => sess.ok = Len(RunSteps)
    /\ Len(sess.steps) > 3 => (sess.ResolvedTSO # "" /\ sess.ok >= 3)
    /\ (sess.ok >= 3 \/ sess.dumped) => sess.ResolvedTSO # ""
    /\ (Len(sess.steps) >= 3 /\ sess.ResolvedTSO = "") =>
          (sess.pc = "failed" /\ sess.ok = 2 /\ Len(sess.steps) = 3)
    /\ sess.pc = "done" => (sess.dumped /\ sess.err = "nil")

C33_Witness ==
    /\ sess.pc = "done"
    /\ sess.steps = RunSteps
    /\ sess.ok = 5
    /\ sess.ResolvedTSO = "2"
    /\ sess.dumped
    /\ Len(sess.loads) = 2


InitMerge ==
    /\ run = IdleRun
    /\ markers = [loadinfo |-> FALSE, metadata |-> FALSE]
    /\ clock = 1
    /\ jobs = <<>>
    /\ snapshotAt = <<>>
    /\ nRuns = 0
    /\ ld = IdleLd
    /\ sess = IdleSess
    /\ ddl = IdleDDL
    /\ crt = IdleCrt
    /\ mod = IdleMod
    /\ \E def \in TableDefs :
       \E T \in Targets(def) :
       \E B \in Batches(MaxBatch) :
          mrg = [IdleMrg EXCEPT
                    !.pc = "staged", !.tableDef = def, !.before = T, !.target = T,
                    !.staged = B]

NextMerge ==
    \/ MergeBatch
    \/ MergeAgain

SpecMerge == InitMerge /\ [][NextMerge]_vars

(***************************************************************************)
(* Claims about the merge.                                                 *)
(***************************************************************************)
\* The statement GenMergeInto returns when it rejects a table definition.
Rejected == [into |-> "", err |-> "table has no primary key"]

\* C9: for a table definition without a primary-key column GenMergeInto
\* returns an error and no merge statement; no statement it returns has an
\* empty dedup partition key or an empty ON condition.
C9_NoPrimaryKeyRejected ==
    mrg.pc \in {"merged", "refused"} =>
        IF PKNames(mrg.tableDef) = {}
        THEN mrg.stmt = Rejected
        ELSE mrg.stmt.partitionBy # <<>> /\ mrg.stmt.on # <<>>

\* One change row applied to a table: a delete removes the row of its key,
\* any other row replaces it.
ApplyRow(tableDef, T, row) ==
    LET new == [a |-> row[5], b |-> row[6]]
        rest == {t \in T : ~\A c \in PKNames(tableDef) : t[c] = new[c]}
    IN IF row[1] = "D" THEN rest ELSE rest \cup {new}

RECURSIVE ApplyAscending(_, _, _)
\* The rows of a batch applied one by one in ascending ordering-key order.
ApplyAscending(tableDef, T, rows) ==
    IF rows = {} THEN T
    ELSE LET r == CHOOSE x \in rows : \A y \in rows : x[4] <= y[4]
         IN ApplyAscending(tableDef, ApplyRow(tableDef, T, r), rows \ {r})

\* No two rows of the batch with one primary-key tuple have one ordering key.
DistinctOrderingKeys(tableDef, rows) ==
    \A r1, r2 \in rows :
        (/\ r1[4] = r2[4]
         /\ \A c \in PKNames(tableDef) :
               [a |-> r1[5], b |-> r1[6]][c] = [a |-> r2[5], b |-> r2[6]][c]) => r1 = r2

\* C10: for a table with a primary key and a batch whose ordering keys are
\* distinct within a primary-key tuple, the target after the merge built by
\* GenMergeInto is the target obtained by applying the rows of the batch one
\* by one in ascending ordering-key order.
C10_MergeEqualsSequentialApply ==
    (mrg.pc = "merged" /\ DistinctOrderingKeys(mrg.tableDef, mrg.staged)) =>
        mrg.target = ApplyAscending(mrg.tableDef, mrg.before, mrg.staged)

\* C10's case: a batch with three rows on one key, whose newest row is not
\* the one staged first, was merged into a table that held the key, and the
\* merge changed that row.
C10_Witness ==
    /\ mrg.pc = "merged"
    /\ PKNames(mrg.tableDef) = {"a"}
    /\ mrg.staged = {StagedRow("U", 1, 1, 1), StagedRow("D", 2, 1, 1), StagedRow("I", 3, 1, 2)}
    /\ mrg.before = {[a |-> 1, b |-> 1], [a |-> 2, b |-> 2]}
    /\ mrg.target = {[a |-> 1, b |-> 2], [a |-> 2, b |-> 2]}

\* C11: executing the merge statement of a batch a second time, right after
\* the first on the same target, changes no row of the target.
C11_MergeIdempotent ==
    mrg.pc = "remerged" => mrg.target = mrg.first

\* The key of a projected row or of a target row under the statement's ON
\* columns.
MergeKey(stmt, r) == [i \in 1..Len(stmt.on) |-> r[stmt.on[i].S]]

\* C12: the dedup of the merge keeps for each primary-key tuple of the batch
\* exactly one row, the one with the greatest ordering key; when that row is
\* a delete no target row has its key after the merge (a matching row is
\* deleted, nothing is inserted), otherwise exactly the surviving row has it;
\* target rows of other keys are as before.
C12_DedupKeepsNewest ==
    mrg.pc = "merged" =>
        LET kept == mrg.kept
            Key(r) == MergeKey(mrg.stmt, Project(mrg.stmt, r))
            TKey(t) == [i \in 1..Len(mrg.stmt.on) |-> t[mrg.stmt.on[i].T]]
        IN /\ kept \subseteq mrg.staged
           /\ \A r \in mrg.staged :
                 \E k \in kept :
                    /\ Key(k) = Key(r)
                    /\ k[4] >= r[4]
                    /\ \A k2 \in kept : Key(k2) = Key(k) => k2 = k
           /\ \A k \in kept :
                 LET now == {t \in mrg.target : TKey(t) = Key(k)}
                 IN IF k[1] = "D" THEN now = {}
                    ELSE now = {[a |-> k[5], b |-> k[6]]}
           /\ \A t \in mrg.before \cup mrg.target :
                 (~\E k \in kept : Key(k) = TKey(t)) =>
                     (t \in mrg.before /\ t \in mrg.target)

\* C12's case: two updates and then a delete on one key, merged into a table
\* that held the key: the row is gone.
C12_Witness ==
    /\ mrg.pc = "merged"
    /\ PKNames(mrg.tableDef) = {"a"}
    /\ mrg.staged = {StagedRow("U", 1, 1, 1), StagedRow("U", 2, 1, 2), StagedRow("D", 3, 1, 2)}
    /\ mrg.kept = {StagedRow("D", 3, 1, 2)}
    /\ mrg.before = {[a |-> 1, b |-> 1], [a |-> 2, b |-> 2]}
    /\ mrg.target = {[a |-> 2, b |-> 2]}


InitDDL ==
    /\ run = IdleRun
    /\ markers = [loadinfo |-> FALSE, metadata |-> FALSE]
    /\ clock = 1
    /\ jobs = <<>>
    /\ snapshotAt = <<>>
    /\ nRuns = 0
    /\ ld = IdleLd
    /\ sess = IdleSess
    /\ mrg = IdleMrg
    /\ crt = IdleCrt
    /\ mod = IdleMod
    /\ \E tp \in ActionTypes, prev \in PrevColumnLists, cur \in CurColumnLists :
          ddl = [IdleDDL EXCEPT
                    !.pc = "call", !.prevColumns = prev,
                    !.curTableDef = [Type |-> tp, Table |-> "t", Schema |-> "db",
                                     Columns |-> cur]]

NextDDL == GenDDL

SpecDDL == InitDDL /\ [][NextDDL]_vars

(***************************************************************************)
(* Claims about the DDL translator.                                        *)
(***************************************************************************)
\* The entries of the computed diff with one of the given actions.
EntriesOf(actions) == SelectSeq(ddl.columnDiff, LAMBDA e : e.Action \in actions)

\* C17: for a table definition with a structural action tag (truncate, drop
\* table, create table, rename tables, drop schema, create schema) the column
\* diff is not computed, no ALTER TABLE statement is returned, and the result
\* is the one for empty column lists.
C17_StructuralNoColumnDDL ==
    (ddl.pc = "returned"
     /\ ddl.curTableDef.Type \in {"truncate table", "drop table", "create table",
                                   "rename tables", "drop schema", "create schema"}) =>
        /\ ~ddl.diffed
        /\ \A i \in 1..Len(ddl.ddls) : ~Contains(ddl.ddls[i], "ALTER TABLE")
        /\ LET r == GenDDLViaColumnsDiff(<<>>, [ddl.curTableDef EXCEPT !.Columns = <<>>])
           IN ddl.ddls = r.ddls /\ ddl.err = r.err

\* C17's case: a truncate whose column lists differ in every way (a column
\* dropped, a column added) returned its one statement.
C17_Witness ==
    /\ ddl.pc = "returned"
    /\ ddl.curTableDef.Type = "truncate table"
    /\ Len(ddl.prevColumns) = 1 /\ ddl.prevColumns[1].ID = 1
    /\ Len(ddl.curTableDef.Columns) = 1 /\ ddl.curTableDef.Columns[1].ID = 2
    /\ ddl.ddls = <<"TRUNCATE TABLE t">>

\* C18: truncate gives exactly the statement TRUNCATE TABLE <table>, drop
\* table exactly DROP TABLE <table>, drop schema exactly one DROP SCHEMA
\* <schema> statement ending in CASCADE; none of them returns an error.
C18_StructuralStatements ==
    ddl.pc = "returned" =>
        /\ ddl.curTableDef.Type = "truncate table" =>
              (ddl.ddls = <<"TRUNCATE TABLE " \o ddl.curTableDef.Table>> /\ ddl.err = "nil")
        /\ ddl.curTableDef.Type = "drop table" =>
              (ddl.ddls = <<"DROP TABLE " \o ddl.curTableDef.Table>> /\ ddl.err = "nil")
        /\ ddl.curTableDef.Type = "drop schema" =>
              /\ Len(ddl.ddls) = 1
              /\ HasPrefix(ddl.ddls[1], "DROP SCHEMA " \o ddl.curTableDef.Schema)
              /\ HasSuffix(ddl.ddls[1], " CASCADE")
              /\ ddl.err = "nil"

\* C18's case: a drop schema returned DROP SCHEMA db CASCADE.
C18_Witness ==
    /\ ddl.pc = "returned"
    /\ ddl.curTableDef.Type = "drop schema"
    /\ ddl.curTableDef.Columns # <<>>
    /\ ddl.ddls = <<"DROP SCHEMA db CASCADE">>

\* C19: create table and rename tables return an error that names the
\* action and no statement; they never return an empty list without error.
C19_CreateRenameRejected ==
    ddl.pc = "returned" =>
        /\ ddl.curTableDef.Type = "create table" =>
              (ddl.ddls = <<>> /\ ddl.err # "nil" /\ Contains(ddl.err, "create table"))
        /\ ddl.curTableDef.Type = "rename tables" =>
              (ddl.ddls = <<>> /\ ddl.err # "nil" /\ Contains(ddl.err, "rename table"))

\* C19's case: a rename tables was rejected.
C19_Witness ==
    /\ ddl.pc = "returned"
    /\ ddl.curTableDef.Type = "rename tables"
    /\ ddl.prevColumns # <<>>
    /\ ddl.ddls = <<>>
    /\ Contains(ddl.err, "Received rename table ddl")

\* Whether a statement is the ALTER TABLE statement of a diff entry.
StatementOf(stmt, entry) ==
    /\ HasPrefix(stmt, "ALTER TABLE " \o ddl.curTableDef.Table \o " ")
    /\ HasSuffix(stmt, ";")
    /\ entry.Action = "ADD" =>
          Contains(stmt, " ADD COLUMN " \o entry.After.Name \o " ")
    /\ entry.Action = "DROP" =>
          stmt = "ALTER TABLE " \o ddl.curTableDef.Table \o " DROP COLUMN "
                 \o entry.Before.Name \o ";"
    /\ entry.Action = "RENAME" =>
          stmt = "ALTER TABLE " \o ddl.curTableDef.Table \o " RENAME COLUMN "
                 \o entry.Before.Name \o " TO " \o entry.After.Name \o ";"

\* C20: for a column-level change whose diff has no MODIFY entry the
\* statements returned are, in the order of the diff, one ALTER TABLE
\* statement for each ADD, DROP and RENAME entry and nothing else.
C20_OneStatementPerEntry ==
    (ddl.pc = "returned" /\ ddl.diffed /\ EntriesOf({"MODIFY"}) = <<>>) =>
        LET entries == EntriesOf({"ADD", "DROP", "RENAME"})
        IN /\ Len(ddl.ddls) = Len(entries)
           /\ \A i \in 1..Len(entries) : StatementOf(ddl.ddls[i], entries[i])

\* C21: when the computed diff has a MODIFY entry the call returns an error
\* and no statement, none either for the ADD, DROP and RENAME entries before
\* the MODIFY entry; the error is the one of the first entry that cannot be
\* translated.
C21_ModifyFails ==
    (ddl.pc = "returned" /\ ddl.diffed /\ EntriesOf({"MODIFY"}) # <<>>) =>
        /\ ddl.ddls = <<>>
        /\ ddl.err # "nil"
        /\ Contains(ddl.err, "modify column") \/ Contains(ddl.err, "Unsupported data type")
        /\ \A i \in 1..Len(ddl.columnDiff) :
              (ddl.columnDiff[i].Action = "MODIFY"
               /\ \A j \in 1..(i - 1) : ddl.columnDiff[j].Action # "ADD") =>
                  Contains(ddl.err, "modify column")

\* C21's case: the diff has a DROP entry and then a MODIFY entry; the call
\* failed and returned no statement for the DROP entry.
C21_Witness ==
    /\ ddl.pc = "returned"
    /\ Len(ddl.columnDiff) = 2
    /\ ddl.columnDiff[1].Action = "DROP"
    /\ ddl.columnDiff[2].Action = "MODIFY"
    /\ ddl.ddls = <<>>
    /\ ddl.err = "Received modify column ddl, which is not supported by redshift yet"

\* The column ids a diff entry is about.
EntryIDs(entry) ==
    {c.ID : c \in {entry.Before, entry.After} \ {NilCol}}

\* C29: the column diff partitions the union of the previous and the current
\* columns: every column is in exactly one entry, every entry is about one
\* column of the union and has one of the actions ADD, DROP, MODIFY, RENAME,
\* UNCHANGED.
C29_DiffPartitionsColumns ==
    (ddl.pc = "returned" /\ ddl.diffed) =>
        LET prev == ddl.prevColumns
            cur == ddl.curTableDef.Columns
            ids == {prev[i].ID : i \in 1..Len(prev)} \cup {cur[i].ID : i \in 1..Len(cur)}
            diff == ddl.columnDiff
        IN /\ \A id \in ids :
                 Cardinality({i \in 1..Len(diff) : id \in EntryIDs(diff[i])}) = 1
           /\ \A i \in 1..Len(diff) :
                 /\ diff[i].Action \in {"ADD", "DROP", "MODIFY", "RENAME", "UNCHANGE"}
                 /\ Cardinality(EntryIDs(diff[i])) = 1
                 /\ EntryIDs(diff[i]) \subseteq ids
                 /\ diff[i].Before # NilCol =>
                       \E k \in 1..Len(prev) : prev[k] = diff[i].Before
                 /\ diff[i].After # NilCol =>
                       \E k \in 1..Len(cur) : cur[k] = diff[i].After

C29_Witness ==
    /\ ddl.pc = "returned"
    /\ ddl.diffed
    /\ Len(ddl.prevColumns) = 2
    /\ Len(ddl.curTableDef.Columns) = 1
    /\ Len(ddl.columnDiff) = 2
    /\ ddl.columnDiff[1].Action = "DROP"
    /\ ddl.columnDiff[2].Action = "RENAME"

(***************************************************************************)
(* GenCreateSchema on its own: every call with up to MaxColumns column     *)
(* rows and one of the index listings.                                     *)
(***************************************************************************)
SourceColumnLists ==
    ColumnLists([i \in 1..MaxColumns |-> SourceColumns(i)], 1, MaxColumns)

InitCreate ==
    /\ run = IdleRun
    /\ markers = [loadinfo |-> FALSE, metadata |-> FALSE]
    /\ clock = 1
    /\ jobs = <<>>
    /\ snapshotAt = <<>>
    /\ nRuns = 0
    /\ ld = IdleLd
    /\ sess = IdleSess
    /\ mrg = IdleMrg
    /\ ddl = IdleDDL
    /\ mod = IdleMod
    /\ \/ \E columns \in SourceColumnLists, indexResults \in SourceIndexes :
             crt = [IdleCrt EXCEPT !.pc = "call", !.sourceTable = "t",
                                   !.columns = columns, !.indexResults = indexResults]
       \/ crt = [IdleCrt EXCEPT !.pc = "call", !.sourceTable = "t",
                                !.columns = WideTable.columns,
                                !.indexResults = WideTable.indexResults]

NextCreate == GenCreate

SpecCreate == InitCreate /\ [][NextCreate]_vars

\* The column's source type has a case in the type table.
InTypeTable(column) == ColumnTypeText(column) # ""

\* C22: a column whose source type is not in the type table is left out of
\* the column list: the CREATE TABLE text is the text built from the other
\* columns alone, so it holds no entry and no NOT NULL or DEFAULT fragment
\* for that column, and the other entries are as they would be without it.
C22_UnknownTypeLeftOut ==
    (crt.pc = "returned" /\ crt.err = "nil") =>
        crt.sql = CreateSchemaSQL(crt.sourceTable,
                                  SelectSeq(crt.columns, InTypeTable),
                                  crt.indexResults)

\* The literal a default value is to be rendered as.
DefaultLiteral(val) == IF ParseFloatOK(val) THEN val ELSE "'" \o val \o "'"

\* C23: in every column definition emitted, a default that parses as a
\* number is rendered unquoted and any other default between exactly one
\* pair of single quotes, in the ADD COLUMN statements and in the entries of
\* the CREATE TABLE text.
C23_DefaultLiteralQuoting ==
    /\ (ddl.pc = "returned" /\ ddl.err = "nil") =>
          \A i \in 1..Len(ddl.columnDiff) :
             (ddl.columnDiff[i].Action = "ADD"
              /\ ddl.columnDiff[i].After.Default # <<>>) =>
                 \E j \in 1..Len(ddl.ddls) :
                    /\ Contains(ddl.ddls[j],
                                " ADD COLUMN " \o ddl.columnDiff[i].After.Name \o " ")
                    /\ HasSuffix(ddl.ddls[j],
                                 " DEFAULT "
                                 \o DefaultLiteral(ddl.columnDiff[i].After.Default[1])
                                 \o ";")
    /\ (crt.pc = "returned" /\ crt.err = "nil") =>
          \A i \in 1..Len(crt.columns) :
             (crt.columns[i].ColumnDefault # <<>> /\ InTypeTable(crt.columns[i])) =>
                 HasSuffix(crt.columnRows[i],
                           " DEFAULT " \o DefaultLiteral(crt.columns[i].ColumnDefault[1]))

(***************************************************************************)
(* GenDDLViaColumnsDiff for one added column: the current column list is   *)
(* the previous one and a new column of any type, nullability and default. *)
(***************************************************************************)
AddedCols ==
    {TableCol(id, <<"id", "name", "age", "note">>[id], t[1], t[2], n, d) :
        id \in {3, 4}, t \in ColTypes, n \in {"true", "false"},
        d \in {<<>>, <<"0">>, <<"-1.5">>, <<"1e3">>, <<"inf">>, <<"abc">>,
               <<"">>, <<"CURRENT_TIMESTAMP">>,
               <<"1e400">>, <<"1_000">>, <<"0x1p-2">>, <<"INFINITY">>}}

InitColumn ==
    /\ run = IdleRun
    /\ markers = [loadinfo |-> FALSE, metadata |-> FALSE]
    /\ clock = 1
    /\ jobs = <<>>
    /\ snapshotAt = <<>>
    /\ nRuns = 0
    /\ ld = IdleLd
    /\ sess = IdleSess
    /\ mrg = IdleMrg
    /\ crt = IdleCrt
    /\ mod = IdleMod
    /\ \E prev \in {<<>>, <<TableCol(1, "id", "int", "11", "false", <<>>)>>},
          c \in AddedCols :
          ddl = [IdleDDL EXCEPT
                    !.pc = "call", !.prevColumns = prev,
                    !.curTableDef = [Type |-> "add column", Table |-> "t",
                                     Schema |-> "db", Columns |-> prev \o <<c>>]]

NextColumn == GenDDL

SpecColumn == InitColumn /\ [][NextColumn]_vars

\* C24: the statement of an ADD entry is ALTER TABLE <table> ADD COLUMN, the
\* type string, NOT NULL exactly when the column is not nullable, then
\* DEFAULT <literal> when a default is present and otherwise DEFAULT NULL
\* exactly when the column is nullable; a nullable int column age without
\* default gives ALTER TABLE t ADD COLUMN age INT DEFAULT NULL;
C24_AddColumnText ==
    (ddl.pc = "returned" /\ ddl.err = "nil") =>
        \A i \in 1..Len(ddl.columnDiff) :
           ddl.columnDiff[i].Action = "ADD" =>
              LET c == ddl.columnDiff[i].After
                  text == GetRedshiftTypeString(c).str
                          \o (IF c.Nullable # "true" THEN " NOT NULL" ELSE "")
                          \o (IF c.Default # <<>>
                              THEN " DEFAULT " \o DefaultLiteral(c.Default[1])
                              ELSE IF c.Nullable = "true" THEN " DEFAULT NULL" ELSE "")
              IN /\ \E j \in 1..Len(ddl.ddls) :
                       ddl.ddls[j] = "ALTER TABLE " \o ddl.curTableDef.Table
                                     \o " ADD COLUMN " \o text \o ";"
                 /\ (c.Name = "age" /\ c.Tp = "int" /\ c.Nullable = "true"
                     /\ c.Default = <<>> /\ ddl.curTableDef.Table = "t") =>
                       ddl.ddls = <<"ALTER TABLE t ADD COLUMN age INT DEFAULT NULL;">>

C24_Witness ==
    /\ ddl.pc = "returned"
    /\ ddl.prevColumns # <<>>
    /\ Len(ddl.columnDiff) = 2
    /\ ddl.columnDiff[2].Action = "ADD"
    /\ ddl.columnDiff[2].After.Nullable = "true"
    /\ ddl.columnDiff[2].After.Default = <<>>
    /\ ddl.ddls = <<"ALTER TABLE t ADD COLUMN age INT DEFAULT NULL;">>

(***************************************************************************)
(* GetColumnModifyString on its own: every pair of a column before and     *)
(* after a change.                                                         *)
(***************************************************************************)
InitModify ==
    /\ run = IdleRun
    /\ markers = [loadinfo |-> FALSE, metadata |-> FALSE]
    /\ clock = 1
    /\ jobs = <<>>
    /\ snapshotAt = <<>>
    /\ nRuns = 0
    /\ ld = IdleLd
    /\ sess = IdleSess
    /\ mrg = IdleMrg
    /\ ddl = IdleDDL
    /\ crt = IdleCrt
    /\ \E before \in ModifyCols, after \in ModifyCols :
          mod = [IdleMod EXCEPT !.pc = "call",
                                !.diff = [Action |-> "MODIFY", Before |-> before,
                                          After |-> after]]

NextModify == GenModify

SpecModify == InitModify /\ [][NextModify]_vars

\* C25: GetColumnModifyString emits DROP DEFAULT exactly when the default
\* changed and the new default is absent; no default clause but a warning
\* when the default changed to a new value; DROP NOT NULL exactly when the
\* column became nullable and SET NOT NULL exactly when it became
\* non-nullable; a type clause exactly when type, precision or scale changed.
C25_ModifyClauses ==
    mod.pc = "returned" =>
        LET b == mod.diff.Before
            a == mod.diff.After
            has(suffix) == \E i \in 1..Len(mod.strs) :
                              mod.strs[i] = "COLUMN " \o a.Name \o suffix
            typeClause == \E i \in 1..Len(mod.strs) :
                             /\ HasPrefix(mod.strs[i], "COLUMN " \o a.Name \o " ")
                             /\ ~HasSuffix(mod.strs[i], " DROP DEFAULT")
                             /\ ~HasSuffix(mod.strs[i], " NOT NULL")
        IN /\ has(" DROP DEFAULT") <=> (b.Default # a.Default /\ a.Default = <<>>)
           /\ (b.Default # a.Default /\ a.Default # <<>>) =>
                 (mod.warned /\ ~Contains(mod.str, "DEFAULT"))
           /\ has(" DROP NOT NULL") <=> (b.Nullable # a.Nullable /\ a.Nullable = "true")
           /\ has(" SET NOT NULL") <=> (b.Nullable # a.Nullable /\ a.Nullable # "true")
           /\ typeClause <=> (b.Tp # a.Tp \/ b.Precision # a.Precision \/ b.Scale # a.Scale)
           /\ mod.str = Join(mod.strs, ", ")


Init ==
    /\ run = IdleRun
    /\ markers = [loadinfo |-> FALSE, metadata |-> FALSE]
    /\ clock = 1
    /\ jobs = <<>>
    /\ snapshotAt = <<>>
    /\ nRuns = 0
    /\ ld = IdleLd
    /\ sess = IdleSess
    /\ mrg = IdleMrg
    /\ ddl = IdleDDL
    /\ crt = IdleCrt
    /\ mod = IdleMod

Next ==
    \/ RunCheckStatus
    \/ RunGetCurrentTSO
    \/ RunCreateChangefeed
    \/ RunParseTable
    \/ RunReplicateSnapshot
    \/ RunReplicateIncrement
    \/ RunIncrementFails
    \/ RunIncrementReturns
    \/ RunPanics
    \/ RunExit
    \/ SourceTick
    \/ CaptureWritesMetadata

Spec == Init /\ [][Next]_vars

====
